---- MODULE Spec2Model ----
(***************************************************************************)
(* lunasched: the scheduling and execution engine of the daemon.           *)
(*   daemon/src/scheduler.rs  Scheduler (tick, add_job, remove_job,        *)
(*                            finish_job, execute_job),                    *)
(*                            calculate_backoff_delay                      *)
(*   daemon/src/main.rs       connection handler (AddJob, StartJob,        *)
(*                            RemoveJob), tick loop                        *)
(*   daemon/src/db.rs         Db (jobs, history, retry_attempts)           *)
(***************************************************************************)
EXTENDS Integers, Sequences, FiniteSets, TLC

(***************************************************************************)
(* u64 arithmetic.  A u64 is a little-endian sequence of Limbs limbs in    *)
(* base LimbBase; products are computed exactly on limb sequences and the  *)
(* machine result is the exact result truncated to Limbs limbs.            *)
(***************************************************************************)
LimbBase == 256

Limbs == 8

U64Bits == 64

Limb == 0 .. (LimbBase - 1)

RECURSIVE BigFromNat(_, _)
\* n (a small natural) as a number of len limbs
BigFromNat(n, len) ==
    IF len = 0 THEN << >>
    ELSE << n % LimbBase >> \o BigFromNat(n \div LimbBase, len - 1)

U64(n) == BigFromNat(n, Limbs)

\* limb k (0-based) of x, zero beyond its length
BigLimb(x, k) == IF k + 1 <= Len(x) THEN x[k + 1] ELSE 0

BigIsZero(x) == \A i \in 1 .. Len(x) : x[i] = 0

RECURSIVE BigColumn(_, _, _, _)
\* sum of x[i] * y[k - i] for i in 0 .. i
BigColumn(x, y, k, i) ==
    IF i < 0 THEN 0
    ELSE BigLimb(x, i) * BigLimb(y, k - i) + BigColumn(x, y, k, i - 1)

RECURSIVE BigMulFrom(_, _, _, _)
BigMulFrom(x, y, k, carry) ==
    IF k = Len(x) + Len(y) THEN << >>
    ELSE LET s == carry + BigColumn(x, y, k, k)
         IN  << s % LimbBase >> \o BigMulFrom(x, y, k + 1, s \div LimbBase)

\* the exact product, Len(x) + Len(y) limbs
BigMul(x, y) == BigMulFrom(x, y, 0, 0)

RECURSIVE NatPow2(_)
NatPow2(n) == IF n = 0 THEN 1 ELSE 2 * NatPow2(n - 1)

\* the exact value of 2^n, on (n div 8) + 1 limbs
BigPow2(n) ==
    [i \in 1 .. ((n \div 8) + 1) |->
        IF i = (n \div 8) + 1 THEN NatPow2(n % 8) ELSE 0]

RECURSIVE BigLessFrom(_, _, _)
\* x < y deciding on limbs k, k-1, ..., 0
BigLessFrom(x, y, k) ==
    IF k < 0 THEN FALSE
    ELSE IF BigLimb(x, k) # BigLimb(y, k) THEN BigLimb(x, k) < BigLimb(y, k)
    ELSE BigLessFrom(x, y, k - 1)

BigLess(x, y) ==
    BigLessFrom(x, y, (IF Len(x) > Len(y) THEN Len(x) ELSE Len(y)) - 1)

\* the low Limbs limbs of x: the value a u64 holds after wrap-around
Wrap64(x) == [i \in 1 .. Limbs |-> BigLimb(x, i - 1)]

\* x does not fit in a u64
Overflows64(x) == \E i \in 1 .. Len(x) : i > Limbs /\ x[i] # 0

\* u64::min
U64Min(x, y) == IF BigLess(y, x) THEN y ELSE x

\* a u64 known to be below 2^24, as a natural
U64ToNat(x) == x[1] + LimbBase * x[2] + LimbBase * LimbBase * x[3]

U64IsSmall(x) == \A i \in 4 .. Limbs : x[i] = 0

BackoffStrategy == {"Fixed", "Linear", "Exponential"}

(***************************************************************************)
(* calculate_backoff_delay.  checks is the build's overflow-checks         *)
(* setting: with it an overflowing `*` or `pow` panics, without it the     *)
(* result wraps.  The result is [panic, value].                            *)
(***************************************************************************)
\* an arithmetic step of the `delay` expression leaves the u64 range
BackoffOverflows(attempt, strategy, initial_delay) ==
    CASE strategy = "Fixed" -> FALSE
      [] strategy = "Linear" ->
            Overflows64(BigMul(initial_delay, U64(attempt + 1)))
      [] strategy = "Exponential" ->
            \/ attempt >= U64Bits
            \/ Overflows64(BigMul(initial_delay, Wrap64(BigPow2(attempt))))

\* the wrapped value of the `delay` expression before the clamp
BackoffWrapped(attempt, strategy, initial_delay) ==
    CASE strategy = "Fixed" -> initial_delay
      [] strategy = "Linear" -> Wrap64(BigMul(initial_delay, U64(attempt + 1)))
      [] strategy = "Exponential" ->
            Wrap64(BigMul(initial_delay, Wrap64(BigPow2(attempt))))

calculate_backoff_delay(attempt, strategy, initial_delay, max_delay, checks) ==
    IF checks /\ BackoffOverflows(attempt, strategy, initial_delay)
    THEN [panic |-> TRUE, value |-> U64(0)]
    ELSE [panic |-> FALSE,
          value |-> U64Min(BackoffWrapped(attempt, strategy, initial_delay),
                           max_delay)]

(***************************************************************************)
(* Bounds of the model and the inputs the requests are drawn from.         *)
(***************************************************************************)
\* the wall clock runs from 0 to MaxTime seconds
MaxTime == 1

\* ticks and StartJob dispatch while the next execution id is at most MaxExecs
MaxExecs == 2

JobIds == {"a"}

\* peer uids: root and one unprivileged user
Uids == {0, 1000}

\* owner strings a client may put in the job document it sends
ClientOwners == {"", "root"}

\* RetryPolicy::default()
NoRetry ==
    [max_attempts |-> 0, backoff_strategy |-> "Exponential",
     initial_delay_seconds |-> U64(60), max_delay_seconds |-> U64(3600)]

LinearRetry ==
    [max_attempts |-> 2, backoff_strategy |-> "Linear",
     initial_delay_seconds |-> U64(1), max_delay_seconds |-> U64(2)]

FixedRetry ==
    [max_attempts |-> 1, backoff_strategy |-> "Fixed",
     initial_delay_seconds |-> U64(0), max_delay_seconds |-> U64(1)]

Every(seconds) == [kind |-> "Every", seconds |-> seconds]

Cron(expression) == [kind |-> "Cron", expression |-> expression]

\* Option::None of days_of_week, and Some(days)
AnyDay == [some |-> FALSE, days |-> {}]

DaysOfWeek(days) == [some |-> TRUE, days |-> days]

\* Option::None of nth_weekday, and Some((n, weekday))
AnyWeek == [some |-> FALSE, n |-> 0, weekday |-> 0]

NthWeekday(n, weekday) == [some |-> TRUE, n |-> n, weekday |-> weekday]

Calendar(time, days_of_week, nth_weekday) ==
    [kind |-> "Calendar",
     params |-> [time |-> time, days_of_week |-> days_of_week,
                 nth_weekday |-> nth_weekday]]

\* Job::timezone = None
NoTimezone == "None"

\* ResourceLimits::timeout_seconds: Option::None, and Some(seconds)
NoTimeout == [some |-> FALSE, seconds |-> 0]

Timeout(seconds) == [some |-> TRUE, seconds |-> seconds]

\* the definitions clients submit: schedule, enabled flag and retry policy
JobDefs ==
    { [enabled |-> TRUE, schedule |-> Every(1),
       retry_policy |-> NoRetry],
      [enabled |-> TRUE, schedule |-> Every(2),
       retry_policy |-> LinearRetry],
      [enabled |-> FALSE, schedule |-> Every(1),
       retry_policy |-> FixedRetry] }

\* the job documents of AddJob requests (the owner as the client sent it)
JobDocs ==
    { [id |-> id, owner |-> owner, enabled |-> d.enabled,
       schedule |-> d.schedule, retry_policy |-> d.retry_policy,
       jitter_seconds |-> 0, timezone |-> NoTimezone,
       timeout_seconds |-> NoTimeout] :
      id \in JobIds, owner \in ClientOwners, d \in JobDefs }

VARIABLES
    jobs,                    \* Scheduler.jobs: id -> Job
    last_runs,               \* Scheduler.last_runs: id -> instant
    last_execution_windows,  \* Scheduler.last_execution_windows: id -> instant
    running_jobs,            \* Scheduler.running_jobs: id -> JobExecutionContext
    retry_state,             \* Scheduler.retry_state: id -> RetryState
    db_jobs,                 \* table jobs of the Store: id -> row
    history,                 \* table history of the Store, oldest row first
    retry_attempts,          \* table retry_attempts of the Store
    execs,                   \* the execute_job tasks in flight
    due,                     \* the Vec<Job> tick returned, not yet dispatched
    next_eid,                \* the next fresh execution id
    now,                     \* the wall clock, in seconds
    response,                \* the last response a connection handler wrote
    overflow_checks,         \* the build's overflow-checks setting
    backoff_call,            \* arguments of a call of calculate_backoff_delay
    backoff_result,          \* and its result
    conn,                    \* one client connection and its handler task
    children,                \* the process table: pid -> process
    enforcers,               \* the enforce_timeout tasks in flight
    daemon,                  \* main's position and the socket file
    tasks                    \* each task's remaining steps and the locks it holds

sched_vars ==
    << jobs, last_runs, last_execution_windows, running_jobs, retry_state >>

db_vars == << db_jobs, history, retry_attempts >>

io_vars == << conn, children, enforcers, daemon >>

vars ==
    << jobs, last_runs, last_execution_windows, running_jobs, retry_state,
       db_jobs, history, retry_attempts, execs, due, next_eid, now, response, overflow_checks, backoff_call, backoff_result, io_vars, tasks >>

\* HashMap::insert and HashMap::remove on a map held as a function
Put(f, k, v) == [x \in (DOMAIN f) \cup {k} |-> IF x = k THEN v ELSE f[x]]

Remove(f, k) == [x \in (DOMAIN f) \ {k} |-> f[x]]

EmptyMap == [x \in {} |-> 0]

RECURSIVE SetToSeq(_)
\* the elements of a finite set in the order an iteration visits them
SetToSeq(S) ==
    IF S = {} THEN << >>
    ELSE LET x == CHOOSE y \in S : TRUE IN << x >> \o SetToSeq(S \ {x})

(***************************************************************************)
(* Control plane: the connection handler.  A handler is a function of the  *)
(* state it finds (Core) and of its request; it yields the state it leaves *)
(* and the response it writes.                                             *)
(***************************************************************************)
\* what the handlers can reach: the Scheduler, the Store, the spawned tasks
Core ==
    [jobs |-> jobs, last_runs |-> last_runs,
     last_execution_windows |-> last_execution_windows,
     running_jobs |-> running_jobs, retry_state |-> retry_state,
     db_jobs |-> db_jobs, history |-> history,
     retry_attempts |-> retry_attempts, execs |-> execs,
     next_eid |-> next_eid]

\* requester_owner
OwnerLabel(peer_uid) == IF peer_uid = 0 THEN "root" ELSE "lunasched"

\* mutant of StampOwner: the owner the client wrote is kept
StampOwner_KeepClient(doc, peer_uid) == doc

\* the owner override applied to an AddJob document before it is handled
StampOwner(doc, peer_uid) == [doc EXCEPT !.owner = OwnerLabel(peer_uid)]

\* Response::Ok and Response::Error(message)
Ok == [tag |-> "Ok", value |-> << >>]

Error(message) == [tag |-> "Error", value |-> message]

\* Error("Permission denied: Cannot <verb> job owned by <owner>")
Denied(verb, owner) ==
    Error(<< "Permission denied: Cannot", verb, "job owned by", owner >>)

\* mutant of PermissionDenied: the exemption is given to jobs of root
\* instead of to the requester root
PermissionDenied_ExemptJob(existing_owner, requester_owner) ==
    existing_owner # requester_owner /\ existing_owner # "root"

\* the ownership test the three mutating handlers share
PermissionDenied(existing_owner, requester_owner) ==
    existing_owner # requester_owner /\ requester_owner # "root"

(***************************************************************************)
(* The Store: a row of table jobs holds the schedule as a type and a text, *)
(* the retry policy as JSON text, jitter_seconds as an INTEGER and the     *)
(* timezone as TEXT or NULL.                                               *)
(***************************************************************************)
RECURSIVE Digits(_)
\* u64::to_string: the decimal digits, most significant first
Digits(n) == IF n < 10 THEN << n >> ELSE Append(Digits(n \div 10), n % 10)

RECURSIVE DigitsValue(_)
DigitsValue(text) ==
    IF text = << >> THEN 0
    ELSE 10 * DigitsValue(SubSeq(text, 1, Len(text) - 1)) + text[Len(text)]

\* sched_val.parse().unwrap_or(0)
ParseU64(text) ==
    IF text # << >> /\ \A i \in DOMAIN text : text[i] \in 0 .. 9
    THEN DigitsValue(text) ELSE 0

\* a column that is NULL, and one that holds a text
SqlNull == [null |-> TRUE, text |-> ""]

SqlText(text) == [null |-> FALSE, text |-> text]

\* JSON null, and a JSON value
JsonNull == [null |-> TRUE, value |-> {}]

JsonSome(value) == [null |-> FALSE, value |-> value]

\* serde_json::to_string and from_str of CalendarParams: an Option that is
\* None is written null
ParamsToJson(params) ==
    [time |-> params.time,
     days_of_week |-> IF params.days_of_week.some
                      THEN JsonSome(params.days_of_week.days) ELSE JsonNull,
     nth_weekday |-> IF params.nth_weekday.some
                     THEN JsonSome(<< params.nth_weekday.n,
                                      params.nth_weekday.weekday >>)
                     ELSE JsonNull]

ParamsFromJson(text) ==
    [time |-> text.time,
     days_of_week |-> IF text.days_of_week.null THEN AnyDay
                      ELSE DaysOfWeek(text.days_of_week.value),
     nth_weekday |-> IF text.nth_weekday.null THEN AnyWeek
                     ELSE NthWeekday(text.nth_weekday.value[1],
                                     text.nth_weekday.value[2])]

\* serde_json::to_string and from_str of RetryPolicy
RetryPolicyToJson(policy) == [json |-> policy]

RetryPolicyFromJson(text) == text.json

\* serde_json::to_string of the ResourceLimits and from_str of the column
ResourceLimitsToJson(timeout_seconds) == [json |-> timeout_seconds]

ResourceLimitsFromJson(text) == text.json

\* the parameters Db::add_job binds; jitter_seconds as i64 keeps every value
\* below 2^63
DbRow(job) ==
    [id |-> job.id,
     schedule_type |->
         CASE job.schedule.kind = "Cron" -> "cron"
           [] job.schedule.kind = "Every" -> "every"
           [] job.schedule.kind = "Calendar" -> "calendar",
     schedule_value |->
         CASE job.schedule.kind = "Cron" -> job.schedule.expression
           [] job.schedule.kind = "Every" -> Digits(job.schedule.seconds)
           [] job.schedule.kind = "Calendar" ->
                  ParamsToJson(job.schedule.params),
     enabled |-> job.enabled,
     owner |-> job.owner,
     retry_policy |-> RetryPolicyToJson(job.retry_policy),
     jitter_seconds |-> job.jitter_seconds,
     resource_limits |-> ResourceLimitsToJson(job.timeout_seconds),
     timezone |-> IF job.timezone = NoTimezone THEN SqlNull
                  ELSE SqlText(job.timezone)]

\* mutant of RowJob: the timezone column is not read back
RowJob_TimezoneLost(row) ==
    [id |-> row.id,
     owner |-> row.owner,
     enabled |-> row.enabled,
     schedule |->
         CASE row.schedule_type = "cron" -> Cron(row.schedule_value)
           [] row.schedule_type = "every" -> Every(ParseU64(row.schedule_value))
           [] row.schedule_type = "calendar" ->
                  [kind |-> "Calendar",
                   params |-> ParamsFromJson(row.schedule_value)]
           [] OTHER -> Cron(row.schedule_value),
     retry_policy |-> RetryPolicyFromJson(row.retry_policy),
     jitter_seconds |-> row.jitter_seconds,
     timezone |-> NoTimezone,
     timeout_seconds |-> ResourceLimitsFromJson(row.resource_limits)]

\* the closure of query_map in Db::load_jobs: the Job of a row
RowJob(row) ==
    [id |-> row.id,
     owner |-> row.owner,
     enabled |-> row.enabled,
     schedule |->
         CASE row.schedule_type = "cron" -> Cron(row.schedule_value)
           [] row.schedule_type = "every" -> Every(ParseU64(row.schedule_value))
           [] row.schedule_type = "calendar" ->
                  [kind |-> "Calendar",
                   params |-> ParamsFromJson(row.schedule_value)]
           [] OTHER -> Cron(row.schedule_value),
     retry_policy |-> RetryPolicyFromJson(row.retry_policy),
     jitter_seconds |-> row.jitter_seconds,
     timezone |-> IF row.timezone.null THEN NoTimezone ELSE row.timezone.text,
     timeout_seconds |-> ResourceLimitsFromJson(row.resource_limits)]

\* Db::load_jobs: the HashMap of the jobs of all rows
load_jobs(table) == [id \in DOMAIN table |-> RowJob(table[id])]

\* Db::add_job (INSERT OR REPLACE, id is the primary key) and Db::remove_job
DbAddJob(table, job) == Put(table, job.id, DbRow(job))

DbRemoveJob(table, id) == Remove(table, id)

\* mutant of add_job: a replaced job starts over without a fire history
add_job_Fresh(c, job) ==
    [c EXCEPT !.db_jobs = DbAddJob(c.db_jobs, job),
              !.jobs = Put(c.jobs, job.id, job),
              !.last_runs = Remove(c.last_runs, job.id)]

\* mutant of remove_job: the context of a running execution is dropped too
remove_job_DropContext(c, id) ==
    [c EXCEPT !.db_jobs = DbRemoveJob(c.db_jobs, id),
              !.jobs = Remove(c.jobs, id),
              !.running_jobs = Remove(c.running_jobs, id)]

\* Scheduler::add_job and Scheduler::remove_job
add_job(c, job) ==
    [c EXCEPT !.db_jobs = DbAddJob(c.db_jobs, job),
              !.jobs = Put(c.jobs, job.id, job)]

\* mutant of remove_job: the row is deleted, the in-memory job is kept
remove_job_StoreOnly(c, id) ==
    [c EXCEPT !.db_jobs = DbRemoveJob(c.db_jobs, id)]

remove_job(c, id) ==
    [c EXCEPT !.db_jobs = DbRemoveJob(c.db_jobs, id),
              !.jobs = Remove(c.jobs, id)]

\* mutant of add_job_unsaved: a job that cannot be persisted is not kept
add_job_unsaved_Dropped(c, job) == c

\* Scheduler::add_job when Db::add_job returns Err: `let _ =` drops the
\* error, the Store is as it was, the job is inserted in memory
add_job_unsaved(c, job) == [c EXCEPT !.jobs = Put(c.jobs, job.id, job)]

\* a fresh JobExecutionContext
NewContext(eid, scheduled_time, start_time) ==
    [execution_id |-> eid, scheduled_time |-> scheduled_time,
     start_time |-> start_time, pid |-> "None"]

NoRow == [table |-> "-"]

\* the task that runs execute_job for a job cloned at dispatch
NewExec(eid, job, origin) ==
    [eid |-> eid, job |-> job, origin |-> origin, pc |-> "dispatched",
     current_attempt |-> 0, outcome |-> "-", row |-> NoRow]

\* mutant of AddJobResult: a replaced job keeps the owner it had
AddJobResult_KeepsOwner(c, peer_uid, doc) ==
    LET job == StampOwner(doc, peer_uid)
        requester_owner == OwnerLabel(peer_uid)
    IN  IF job.id \in DOMAIN c.jobs
        THEN IF PermissionDenied(c.jobs[job.id].owner, requester_owner)
             THEN [core |-> c,
                   response |-> Denied("overwrite", c.jobs[job.id].owner)]
             ELSE [core |->
                       add_job(c, [job EXCEPT !.owner = c.jobs[job.id].owner]),
                   response |-> Ok]
        ELSE [core |-> add_job(c, job), response |-> Ok]

\* Request::AddJob from a peer with uid peer_uid
AddJobResult(c, peer_uid, doc) ==
    LET job == StampOwner(doc, peer_uid)
        requester_owner == OwnerLabel(peer_uid)
    IN  IF /\ job.id \in DOMAIN c.jobs
           /\ PermissionDenied(c.jobs[job.id].owner, requester_owner)
        THEN [core |-> c,
              response |-> Denied("overwrite", c.jobs[job.id].owner)]
        ELSE [core |-> add_job(c, job), response |-> Ok]

\* Request::AddJob when the write to the Store fails
AddJobUnsavedResult(c, peer_uid, doc) ==
    LET job == StampOwner(doc, peer_uid)
        requester_owner == OwnerLabel(peer_uid)
    IN  IF /\ job.id \in DOMAIN c.jobs
           /\ PermissionDenied(c.jobs[job.id].owner, requester_owner)
        THEN [core |-> c,
              response |-> Denied("overwrite", c.jobs[job.id].owner)]
        ELSE [core |-> add_job_unsaved(c, job), response |-> Ok]

\* Request::RemoveJob
RemoveJobResult(c, peer_uid, id) ==
    IF id \notin DOMAIN c.jobs
    THEN [core |-> c, response |-> Error(<< "Job not found" >>)]
    ELSE IF PermissionDenied(c.jobs[id].owner, OwnerLabel(peer_uid))
    THEN [core |-> c, response |-> Denied("remove", c.jobs[id].owner)]
    ELSE [core |-> remove_job(c, id), response |-> Ok]

\* mutant of AlreadyRunning: StartJob does not look at running_jobs
AlreadyRunning_Unchecked(c, id) == FALSE

\* the test of StartJob that refuses a second execution
AlreadyRunning(c, id) == id \in DOMAIN c.running_jobs

\* mutant of StartJobResult: a manual start counts as a run of the schedule
StartJobResult_StampsLastRun(c, peer_uid, id, t) ==
    IF id \notin DOMAIN c.jobs
    THEN [core |-> c, response |-> Error(<< "Job not found" >>)]
    ELSE IF PermissionDenied(c.jobs[id].owner, OwnerLabel(peer_uid))
    THEN [core |-> c, response |-> Denied("start", c.jobs[id].owner)]
    ELSE IF AlreadyRunning(c, id)
    THEN [core |-> c, response |-> Error(<< "Job is already running" >>)]
    ELSE [core |->
             [c EXCEPT !.running_jobs =
                           Put(c.running_jobs, id, NewContext(c.next_eid, t, t)),
                       !.last_runs = Put(c.last_runs, id, t),
                       !.execs = c.execs \cup
                           {NewExec(c.next_eid, c.jobs[id], "start")},
                       !.next_eid = c.next_eid + 1],
          response |-> Ok]

\* Request::StartJob: check and install under the core lock, then the call
\* of execute_job; t is chrono::Utc::now()
StartJobResult(c, peer_uid, id, t) ==
    IF id \notin DOMAIN c.jobs
    THEN [core |-> c, response |-> Error(<< "Job not found" >>)]
    ELSE IF PermissionDenied(c.jobs[id].owner, OwnerLabel(peer_uid))
    THEN [core |-> c, response |-> Denied("start", c.jobs[id].owner)]
    ELSE IF AlreadyRunning(c, id)
    THEN [core |-> c, response |-> Error(<< "Job is already running" >>)]
    ELSE [core |->
             [c EXCEPT !.running_jobs =
                           Put(c.running_jobs, id, NewContext(c.next_eid, t, t)),
                       !.execs = c.execs \cup
                           {NewExec(c.next_eid, c.jobs[id], "start")},
                       !.next_eid = c.next_eid + 1],
          response |-> Ok]

\* the state r.core and the response r.response a handler leaves
Install(r) ==
    /\ jobs' = r.core.jobs
    /\ last_runs' = r.core.last_runs
    /\ last_execution_windows' = r.core.last_execution_windows
    /\ running_jobs' = r.core.running_jobs
    /\ retry_state' = r.core.retry_state
    /\ db_jobs' = r.core.db_jobs
    /\ history' = r.core.history
    /\ retry_attempts' = r.core.retry_attempts
    /\ execs' = r.core.execs
    /\ next_eid' = r.core.next_eid
    /\ response' = r.response

\* the handler leaves the state r.core and writes r.response
Handle(r) ==
    /\ Install(r)
    /\ UNCHANGED << due, now, overflow_checks, tasks, backoff_call, backoff_result, io_vars >>

AddJob(peer_uid, doc) == Handle(AddJobResult(Core, peer_uid, doc))

AddJobUnsaved(peer_uid, doc) ==
    Handle(AddJobUnsavedResult(Core, peer_uid, doc))

RemoveJob(peer_uid, id) == Handle(RemoveJobResult(Core, peer_uid, id))

StartJob(peer_uid, id, max_execs) ==
    LET r == StartJobResult(Core, peer_uid, id, now)
    IN  /\ r.core.next_eid <= max_execs + 1
        /\ Handle(r)

(***************************************************************************)
(* main: the accept loop, a connection task and the shutdown.              *)
(***************************************************************************)
\* main runs the accept loop, has left it on a signal, or has returned
Serving == [phase |-> "serving", socket_file |-> TRUE]

NoConnection ==
    [state |-> "none", peer_uid |-> 0, sent |-> << >>, wire |-> << >>,
     eof |-> FALSE, complete_buf |-> << >>, handled |-> << >>,
     replies |-> << >>]

\* the bytes of the k-th request document the client writes, in two halves
DocBytes(k) == << [doc |-> k, half |-> 1], [doc |-> k, half |-> 2] >>

\* serde_json::from_slice over the whole buffer: a request only when the
\* buffer is one complete document and nothing more
Parses(buf) == Len(buf) > 0 /\ buf = DocBytes(buf[1].doc)

Parsed(buf) == buf[1].doc

\* a connection task gives up once its buffer has grown past this size; a
\* request document has two bytes here
MaxRequestBytes == 4

AddJobRequest(doc) == [kind |-> "AddJob", id |-> doc.id, job |-> {doc}]

RemoveJobRequest(id) == [kind |-> "RemoveJob", id |-> id, job |-> {}]

\* the match over the Request of a connection task
RequestResult(c, peer_uid, request) ==
    IF request.kind = "AddJob"
    THEN AddJobResult(c, peer_uid, CHOOSE doc \in request.job : TRUE)
    ELSE RemoveJobResult(c, peer_uid, request.id)

\* listener.accept() and the spawn of the connection task
Accept(peer_uid) ==
    /\ daemon.phase = "serving"
    /\ conn.state = "none"
    /\ conn' = [NoConnection EXCEPT !.state = "open", !.peer_uid = peer_uid]
    /\ UNCHANGED << sched_vars, db_vars, execs, due, next_eid, now, response,
                    overflow_checks, tasks, backoff_call, backoff_result, children,
                    enforcers, daemon >>

\* the client writes one more request document to its socket
ClientSend(request) ==
    /\ conn.state # "none"
    /\ ~conn.eof
    /\ conn' = [conn EXCEPT !.sent = Append(conn.sent, request),
                            !.wire = conn.wire \o DocBytes(Len(conn.sent) + 1)]
    /\ UNCHANGED << sched_vars, db_vars, execs, due, next_eid, now, response,
                    overflow_checks, tasks, backoff_call, backoff_result, children,
                    enforcers, daemon >>

\* the client shuts its side of the socket
ClientClose ==
    /\ conn.state # "none"
    /\ ~conn.eof
    /\ conn' = [conn EXCEPT !.eof = TRUE]
    /\ UNCHANGED << sched_vars, db_vars, execs, due, next_eid, now, response,
                    overflow_checks, tasks, backoff_call, backoff_result, children,
                    enforcers, daemon >>

\* socket.read returns n bytes: they join complete_buf, and a buffer that
\* parses is handled, answered and cleared
Read(n) ==
    /\ daemon.phase # "exited"
    /\ conn.state = "open"
    /\ n \in 1..Len(conn.wire)
    /\ LET buf == conn.complete_buf \o SubSeq(conn.wire, 1, n)
           rest == SubSeq(conn.wire, n + 1, Len(conn.wire))
       IN  IF Parses(buf)
           THEN LET r == RequestResult(Core, conn.peer_uid,
                                       conn.sent[Parsed(buf)])
                IN  /\ Install(r)
                    /\ conn' = [conn EXCEPT
                                    !.wire = rest,
                                    !.complete_buf = << >>,
                                    !.handled = Append(conn.handled, Parsed(buf)),
                                    !.replies = Append(conn.replies, r.response)]
           ELSE /\ conn' = [conn EXCEPT
                                !.wire = rest,
                                !.complete_buf = buf,
                                !.state = IF Len(buf) > MaxRequestBytes
                                          THEN "returned" ELSE "open"]
                /\ UNCHANGED << sched_vars, db_vars, execs, next_eid, response >>
    /\ UNCHANGED << due, now, overflow_checks, tasks, backoff_call, backoff_result,
                    children, enforcers, daemon >>

\* socket.read returns Ok(0): the task ends, whatever the buffer holds
ReadEof ==
    /\ daemon.phase # "exited"
    /\ conn.state = "open"
    /\ conn.eof
    /\ conn.wire = << >>
    /\ conn' = [conn EXCEPT !.state = "returned"]
    /\ UNCHANGED << sched_vars, db_vars, execs, due, next_eid, now, response,
                    overflow_checks, tasks, backoff_call, backoff_result, children,
                    enforcers, daemon >>

\* the select of the accept loop takes the SIGTERM or the SIGINT branch
Signal(name) ==
    /\ daemon.phase = "serving"
    /\ daemon' = [daemon EXCEPT !.phase = "stopping"]
    /\ UNCHANGED << sched_vars, db_vars, execs, due, next_eid, now, response,
                    overflow_checks, tasks, backoff_call, backoff_result, conn,
                    children, enforcers >>

\* after the loop: remove_file on the socket path, then main returns and
\* the runtime drops the tasks that are left
Exit ==
    /\ daemon.phase = "stopping"
    /\ daemon' = [phase |-> "exited", socket_file |-> FALSE]
    /\ UNCHANGED << sched_vars, db_vars, execs, due, next_eid, now, response,
                    overflow_checks, tasks, backoff_call, backoff_result, conn,
                    children, enforcers >>

(***************************************************************************)
(* Scheduler::tick.                                                        *)
(***************************************************************************)
\* an Every job that lags by more than this many intervals is reset to now
LagIntervals == 10

\* mutant of RetryDue: every entry of retry_state is collected
RetryDue_Always(state, t) == TRUE

\* the filter of the retry collection: next_attempt_at is set and has come
RetryDue(state, t) == state.next_attempt_at <= t

\* mutant of RetryEligible: the retry loop does not look at running_jobs
RetryEligible_NoGate(id) == id \in DOMAIN jobs

\* the retry loop dispatches a collected id
RetryEligible(id) == id \in DOMAIN jobs /\ id \notin DOMAIN running_jobs

\* mutant of ScheduleEligible: the schedule loop does not look at running_jobs
ScheduleEligible_NoGate(job, running) == job.enabled

\* mutant of ScheduleEligible: a job with a retry_state entry waits for its
\* retry
ScheduleEligible_NoPendingRetry(job, running) ==
    job.enabled /\ job.id \notin running /\ job.id \notin DOMAIN retry_state

\* the two `continue`s at the head of the schedule loop; running is the
\* key set of running_jobs as the retry loop left it
ScheduleEligible(job, running) == job.enabled /\ job.id \notin running

\* mutant of EveryDue: the job is due at every tick
EveryDue_NoWait(id, seconds, t) == [should_run |-> TRUE, next_run_time |-> t]

\* mutant of EveryDue: a late job is rescheduled from the tick's instant
EveryDue_ResetWhenLate(id, seconds, t) ==
    [should_run |-> id \notin DOMAIN last_runs \/ last_runs[id] + seconds <= t,
     next_run_time |-> t]

\* mutant of EveryDue: the schedule is reset at a lag of ten intervals
EveryDue_ResetAtLimit(id, seconds, t) ==
    IF id \notin DOMAIN last_runs
    THEN [should_run |-> TRUE, next_run_time |-> t]
    ELSE LET expected == last_runs[id] + seconds
         IN  [should_run |-> expected <= t,
              next_run_time |->
                  IF expected <= t /\ (t - expected) < seconds * LagIntervals
                  THEN expected ELSE t]

\* ScheduleConfig::Every: [should_run, next_run_time]
EveryDue(id, seconds, t) ==
    IF id \notin DOMAIN last_runs
    THEN [should_run |-> TRUE, next_run_time |-> t]
    ELSE LET expected == last_runs[id] + seconds
         IN  IF expected <= t
             THEN [should_run |-> TRUE,
                   next_run_time |->
                       IF (t - expected) > seconds * LagIntervals
                       THEN t ELSE expected]
             ELSE [should_run |-> FALSE, next_run_time |-> t]

(***************************************************************************)
(* ScheduleConfig::Cron.  Instants are whole seconds counted from Monday   *)
(* 2024-01-01 00:00:00 UTC.  A parsed Schedule is the progression          *)
(* first, first + period, ... (period 0: the single instant first).        *)
(***************************************************************************)
\* every fifth second
CronEveryFive == "*/5 * * * * *"

\* midnight of 1 January 2030 and no other instant
CronYear2030 == "0 0 0 1 1 * 2030"

\* not a cron expression
CronGarbage == "every five seconds"

\* 2030-01-01 00:00:00 UTC: 2192 days of 86400 seconds after the origin
Year2030 == 2192 * 86400

\* cron::Schedule::from_str
ScheduleFromStr(expression) ==
    CASE expression = CronEveryFive -> [ok |-> TRUE, first |-> 0, period |-> 5]
      [] expression = CronYear2030 ->
            [ok |-> TRUE, first |-> Year2030, period |-> 0]
      [] OTHER -> [ok |-> FALSE, first |-> 0, period |-> 0]

\* schedule.after(&start).next(): the first instant strictly after start
After(schedule, start) ==
    IF start < schedule.first
    THEN [some |-> TRUE, at |-> schedule.first]
    ELSE IF schedule.period = 0
    THEN [some |-> FALSE, at |-> 0]
    ELSE [some |-> TRUE,
          at |-> schedule.first + schedule.period *
                     (((start - schedule.first) \div schedule.period) + 1)]

\* mutant of CronDue: the first instant after start fires although it is
\* later than now
CronDue_Early(id, expression, t) ==
    LET schedule == ScheduleFromStr(expression)
        start_time == IF id \notin DOMAIN last_runs THEN t - 1 ELSE last_runs[id]
        next == After(schedule, start_time)
    IN  IF schedule.ok /\ next.some
        THEN [should_run |-> TRUE, next_run_time |-> next.at]
        ELSE [should_run |-> FALSE, next_run_time |-> t]

\* mutant of CronDue: the search starts a second before now at every tick
CronDue_Forgetful(id, expression, t) ==
    LET schedule == ScheduleFromStr(expression)
        next == After(schedule, t - 1)
    IN  IF schedule.ok /\ next.some /\ next.at <= t
        THEN [should_run |-> TRUE, next_run_time |-> next.at]
        ELSE [should_run |-> FALSE, next_run_time |-> t]

\* ScheduleConfig::Cron: [should_run, next_run_time]
CronDue(id, expression, t) ==
    LET schedule == ScheduleFromStr(expression)
        start_time == IF id \notin DOMAIN last_runs THEN t - 1 ELSE last_runs[id]
        next == After(schedule, start_time)
    IN  IF schedule.ok /\ next.some /\ next.at <= t
        THEN [should_run |-> TRUE, next_run_time |-> next.at]
        ELSE [should_run |-> FALSE, next_run_time |-> t]

(***************************************************************************)
(* ScheduleConfig::Calendar.  A naive local date-time is the count of      *)
(* seconds from Monday 2024-01-01 00:00:00 on the local clock; the model   *)
(* stays inside January 2024.                                              *)
(***************************************************************************)
\* the zone of the host (chrono::Local): one hour east of UTC
HostOffset == 60 * 60

\* tz_str.parse::<Tz>() and the offset of the zone from UTC in January
ParseTz(tz_str) ==
    CASE tz_str = "America/New_York" -> [ok |-> TRUE, offset |-> 0 - 5 * 60 * 60]
      [] tz_str = "UTC" -> [ok |-> TRUE, offset |-> 0]
      [] OTHER -> [ok |-> FALSE, offset |-> 0]

\* chrono Timelike and Datelike on a naive local date-time
Hour(local) == (local \div 3600) % 24

Minute(local) == (local \div 60) % 60

Second(local) == local % 60

\* mutant of NumberFromMonday: the days numbered from Sunday = 1
NumberFromMonday_FromSunday(local) == (((local \div 86400) + 1) % 7) + 1

\* weekday().number_from_monday()
NumberFromMonday(local) == ((local \div 86400) % 7) + 1

\* day(): the day of the month
Day(local) == (local \div 86400) + 1

\* with_second(0).with_nanosecond(0)
TruncateToMinute(local) == local - Second(local)

\* day_match of the Calendar arm
DayMatch(params, now_local) ==
    LET current_iso_day == NumberFromMonday(now_local)
        by_days == IF params.days_of_week.some
                   THEN current_iso_day \in params.days_of_week.days
                   ELSE TRUE
        by_nth == IF params.nth_weekday.some
                  THEN IF current_iso_day # params.nth_weekday.weekday
                       THEN FALSE
                       ELSE ((Day(now_local) - 1) \div 7) + 1 =
                                params.nth_weekday.n
                  ELSE TRUE
    IN  by_days /\ by_nth

\* now_local of the Calendar arm
NowLocal(job, t) ==
    IF job.timezone # NoTimezone /\ ParseTz(job.timezone).ok
    THEN t + ParseTz(job.timezone).offset
    ELSE t + HostOffset

\* last_window of the Calendar arm: [some, at]
LastWindow(job) ==
    IF job.id \notin DOMAIN last_execution_windows
    THEN [some |-> FALSE, at |-> 0]
    ELSE IF job.timezone # NoTimezone
    THEN IF ParseTz(job.timezone).ok
         THEN [some |-> TRUE,
               at |-> TruncateToMinute(last_execution_windows[job.id]
                                           + ParseTz(job.timezone).offset)]
         ELSE [some |-> FALSE, at |-> 0]
    ELSE [some |-> TRUE,
          at |-> TruncateToMinute(last_execution_windows[job.id] + HostOffset)]

\* ScheduleConfig::Calendar: [should_run, next_run_time]
CalendarDue(job, t) ==
    LET params == job.schedule.params
        now_local == NowLocal(job, t)
        current_window == TruncateToMinute(now_local)
        last_window == LastWindow(job)
    IN  [should_run |->
             IF last_window.some /\ last_window.at = current_window
             THEN FALSE
             ELSE /\ Hour(now_local) = params.time[1]
                  /\ Minute(now_local) = params.time[2]
                  /\ Second(now_local) = params.time[3]
                  /\ DayMatch(params, now_local),
         next_run_time |-> t]

\* the match on job.schedule
ShouldRun(job, t) ==
    CASE job.schedule.kind = "Every" -> EveryDue(job.id, job.schedule.seconds, t)
      [] job.schedule.kind = "Cron" ->
            CronDue(job.id, job.schedule.expression, t)
      [] job.schedule.kind = "Calendar" -> CalendarDue(job, t)

\* position of x in a sequence without repetition
IndexOf(seq, x) == CHOOSE i \in 1 .. Len(seq) : seq[i] = x

\* the values gen_range(0 .. jitter_seconds * 1000) can give, taken at the
\* whole seconds; no draw (0) without jitter
JitterRange(job) ==
    IF job.jitter_seconds > 0 THEN 0 .. (job.jitter_seconds - 1) ELSE {0}

\* one draw of the random generator for each job of the table
JitterDraws ==
    {draw \in [DOMAIN jobs ->
                  UNION {JitterRange(jobs[id]) : id \in DOMAIN jobs}] :
        \A id \in DOMAIN jobs : draw[id] \in JitterRange(jobs[id])}

\* Scheduler::tick with the jitter the generator draws
TickWith(draw, max_execs) ==
    LET retry_jobs == {id \in DOMAIN retry_state : RetryDue(retry_state[id], now)}
        retry_run == {id \in retry_jobs : RetryEligible(id)}
        running == (DOMAIN running_jobs) \cup retry_run
        sched_run == {id \in DOMAIN jobs :
                         /\ ScheduleEligible(jobs[id], running)
                         /\ ShouldRun(jobs[id], now).should_run}
        retry_seq == SetToSeq(retry_run)
        sched_seq == SetToSeq(sched_run)
        jobs_to_run == retry_seq \o sched_seq
        retry_eid(id) == next_eid + IndexOf(retry_seq, id) - 1
        sched_eid(id) == next_eid + Len(retry_seq) + IndexOf(sched_seq, id) - 1
        fire(id) == ShouldRun(jobs[id], now).next_run_time + draw[id]
    IN  /\ due = << >>
        /\ jobs_to_run = << >> \/ next_eid <= max_execs
        /\ due' = [i \in 1 .. Len(jobs_to_run) |->
                      [eid |-> next_eid + i - 1, job |-> jobs[jobs_to_run[i]],
                       origin |-> IF i <= Len(retry_seq) THEN "retry"
                                  ELSE "schedule"]]
        /\ last_runs' =
               [id \in (DOMAIN last_runs) \cup sched_run |->
                   IF id \in sched_run THEN fire(id) ELSE last_runs[id]]
        /\ last_execution_windows' =
               [id \in (DOMAIN last_execution_windows) \cup sched_run |->
                   IF id \in sched_run THEN fire(id)
                   ELSE last_execution_windows[id]]
        /\ running_jobs' =
               [id \in running \cup sched_run |->
                   IF id \in sched_run
                   THEN NewContext(sched_eid(id), fire(id), now)
                   ELSE IF id \in retry_run
                   THEN NewContext(retry_eid(id), now, now)
                   ELSE running_jobs[id]]
        /\ next_eid' = next_eid + Len(jobs_to_run)
        /\ UNCHANGED << jobs, retry_state, db_jobs, history, retry_attempts,
                        execs, now, response, overflow_checks, tasks,
                        backoff_call, backoff_result, io_vars >>

Tick(max_execs) == \E draw \in JitterDraws : TickWith(draw, max_execs)

\* the tick task after tick() returned and the lock is dropped: one
\* tokio::spawn of execute_job per job of the due-set
Dispatch ==
    /\ due # << >>
    /\ execs' = execs \cup
           {NewExec(due[i].eid, due[i].job, due[i].origin) : i \in 1 .. Len(due)}
    /\ due' = << >>
    /\ UNCHANGED << sched_vars, db_vars, next_eid, now, response,
                    overflow_checks, tasks, backoff_call, backoff_result, io_vars >>

\* mutant of finish_job: the context stays
finish_job_Kept(id) == running_jobs' = running_jobs

\* Scheduler::finish_job
finish_job(id) == running_jobs' = Remove(running_jobs, id)

(***************************************************************************)
(* Scheduler::execute_job, one task per dispatched execution.  Its steps   *)
(* are the places where it takes a lock: the read of retry_state and the   *)
(* spawn, the retry_state update when the child has exited, the Store      *)
(* write, finish_job.                                                      *)
(***************************************************************************)
\* the task at its next position; outcome is how its process ended
SetPc(e, pc, outcome, row) ==
    [e EXCEPT !.pc = pc, !.outcome = outcome, !.row = row]

HistoryRow(id, status) == [table |-> "history", job_id |-> id, status |-> status]

RetryRow(id, attempt, next_retry_at) ==
    [table |-> "retry_attempts", job_id |-> id, attempt_number |-> attempt,
     next_retry_at |-> next_retry_at]

\* current_attempt as execute_job reads it
CurrentAttempt(id) ==
    IF id \in DOMAIN retry_state THEN retry_state[id].attempt ELSE 0

\* the process cmd.spawn() started at t; an execution's child has the
\* execution id as its pid
Child(t) == [owner |-> "job", spawned_at |-> t, signals |-> << >>]

\* a process of somebody else that was given the pid of a child that has
\* been reaped
Stranger(t) == [owner |-> "other", spawned_at |-> t, signals |-> << >>]

\* the seconds enforce_timeout sleeps between SIGTERM and the second look
GraceSeconds == 2

\* the enforce_timeout task of a child, asleep until wake
NewEnforcer(pid, timeout_seconds, t) ==
    [pid |-> pid, timeout_seconds |-> timeout_seconds, pc |-> "sleep",
     wake |-> t + timeout_seconds]

\* nix kill(pid, signal) at t
Kill(table, pid, name, t) ==
    [table EXCEPT ![pid].signals = Append(@, [name |-> name, at |-> t])]

\* the head of execute_job up to cmd.spawn(), and the spawn of the timeout
\* enforcer
ExecuteJob(e, spawned) ==
    /\ e \in execs /\ e.pc = "dispatched"
    /\ LET e1 == [e EXCEPT !.current_attempt = CurrentAttempt(e.job.id)]
       IN  execs' = (execs \ {e}) \cup
              { IF spawned THEN SetPc(e1, "running", "-", NoRow)
                ELSE SetPc(e1, "log", "spawn_error",
                           HistoryRow(e.job.id, "SpawnError")) }
    /\ children' = IF spawned THEN Put(children, e.eid, Child(now))
                   ELSE children
    /\ enforcers' =
           IF spawned /\ e.job.timeout_seconds.some
           THEN enforcers \cup
                    {NewEnforcer(e.eid, e.job.timeout_seconds.seconds, now)}
           ELSE enforcers
    /\ UNCHANGED << sched_vars, db_vars, due, next_eid, now, response,
                    overflow_checks, tasks, backoff_call, backoff_result, conn,
                    daemon >>

\* enforce_timeout after its first sleep: SIGTERM when sysinfo finds a
\* process with the pid
EnforceTimeout(w) ==
    /\ w \in enforcers /\ w.pc = "sleep"
    /\ now >= w.wake
    /\ IF w.pid \in DOMAIN children
       THEN /\ children' = Kill(children, w.pid, "SIGTERM", now)
            /\ enforcers' = (enforcers \ {w}) \cup
                   {[w EXCEPT !.pc = "grace", !.wake = now + GraceSeconds]}
       ELSE /\ enforcers' = enforcers \ {w}
            /\ UNCHANGED children
    /\ UNCHANGED << sched_vars, db_vars, execs, due, next_eid, now, response,
                    overflow_checks, tasks, backoff_call, backoff_result, conn,
                    daemon >>

\* enforce_timeout after its second sleep: SIGKILL when sysinfo still
\* finds a process with the pid
EnforceKill(w) ==
    /\ w \in enforcers /\ w.pc = "grace"
    /\ now >= w.wake
    /\ children' = IF w.pid \in DOMAIN children
                   THEN Kill(children, w.pid, "SIGKILL", now)
                   ELSE children
    /\ enforcers' = enforcers \ {w}
    /\ UNCHANGED << sched_vars, db_vars, execs, due, next_eid, now, response,
                    overflow_checks, tasks, backoff_call, backoff_result, conn,
                    daemon >>

\* the system gives the pid of a reaped child, which an enforcer still
\* holds, to a new process
PidReuse(pid) ==
    /\ pid \notin DOMAIN children
    /\ \E w \in enforcers : w.pid = pid
    /\ children' = Put(children, pid, Stranger(now))
    /\ UNCHANGED << sched_vars, db_vars, execs, due, next_eid, now, response,
                    overflow_checks, tasks, backoff_call, backoff_result, conn,
                    enforcers, daemon >>

\* mutant of should_retry: every failure is retried
should_retry_Always(current_attempt, max_attempts) == TRUE

\* mutant of should_retry: one retry too many
should_retry_OffByOne(current_attempt, max_attempts) ==
    current_attempt <= max_attempts

should_retry(current_attempt, max_attempts) == current_attempt < max_attempts

\* mutant of ClearRetryOnSuccess: the success branch leaves retry_state
ClearRetryOnSuccess_Kept(id) == retry_state

\* the retry_state.remove of the success branch
ClearRetryOnSuccess(id) == Remove(retry_state, id)

\* the child ended and wait_with_output returned Ok: the branches on
\* output.status.success(); a child that was sent a signal has no
\* successful status
ChildExit(e, success) ==
    /\ e \in execs /\ e.pc = "running"
    /\ e.eid \in DOMAIN children
    /\ success => children[e.eid].signals = << >>
    /\ children' = Remove(children, e.eid)
    /\ LET id == e.job.id
           policy == e.job.retry_policy
           delay == calculate_backoff_delay(e.current_attempt,
                        policy.backoff_strategy, policy.initial_delay_seconds,
                        policy.max_delay_seconds, overflow_checks)
           next_attempt == e.current_attempt + 1
           next_attempt_at == now + U64ToNat(delay.value)
       IN  IF success
           THEN /\ retry_state' = ClearRetryOnSuccess(id)
                /\ execs' = (execs \ {e}) \cup
                       {SetPc(e, "log", "success", HistoryRow(id, "success"))}
           ELSE IF should_retry(e.current_attempt, policy.max_attempts)
           THEN IF delay.panic
                THEN /\ execs' = (execs \ {e}) \cup
                            {SetPc(e, "panicked", "failed", NoRow)}
                     /\ UNCHANGED retry_state
                ELSE /\ retry_state' = Put(retry_state, id,
                            [attempt |-> next_attempt,
                             next_attempt_at |-> next_attempt_at])
                     /\ execs' = (execs \ {e}) \cup
                            {SetPc(e, "log", "failed",
                                   RetryRow(id, next_attempt, next_attempt_at))}
           ELSE /\ retry_state' = Remove(retry_state, id)
                /\ execs' = (execs \ {e}) \cup
                       {SetPc(e, "log", "failed", HistoryRow(id, "failed"))}
    /\ UNCHANGED << jobs, last_runs, last_execution_windows, running_jobs,
                    db_vars, due, next_eid, now, response,
                    overflow_checks, tasks, backoff_call, backoff_result, conn,
                    enforcers, daemon >>

\* wait_with_output returned Err
WaitError(e) ==
    /\ e \in execs /\ e.pc = "running"
    /\ execs' = (execs \ {e}) \cup
           {SetPc(e, "log", "wait_error", HistoryRow(e.job.id, "Error"))}
    /\ UNCHANGED << sched_vars, db_vars, due, next_eid, now, response, overflow_checks, tasks, backoff_call, backoff_result, io_vars >>

\* Db::log_history or Db::log_retry_attempt with the row the task prepared
LogResult(e) ==
    /\ e \in execs /\ e.pc = "log"
    /\ IF e.row.table = "history"
       THEN history' = Append(history, e.row) /\ UNCHANGED retry_attempts
       ELSE retry_attempts' = Append(retry_attempts, e.row) /\ UNCHANGED history
    /\ execs' = (execs \ {e}) \cup {SetPc(e, "finish", e.outcome, NoRow)}
    /\ UNCHANGED << sched_vars, db_jobs, due, next_eid, now, response, overflow_checks, tasks, backoff_call, backoff_result, io_vars >>

\* the last statement of the task: scheduler.lock().unwrap().finish_job(&job_id)
FinishJob(e) ==
    /\ e \in execs /\ e.pc = "finish"
    /\ finish_job(e.job.id)
    /\ execs' = execs \ {e}
    /\ UNCHANGED << jobs, last_runs, last_execution_windows, retry_state,
                    db_vars, due, next_eid, now, response,
                    overflow_checks, tasks, backoff_call, backoff_result, io_vars >>

\* a second of wall-clock time passes
AdvanceTime(max_time) ==
    /\ now < max_time
    /\ now' = now + 1
    /\ UNCHANGED << sched_vars, db_vars, execs, due, next_eid, response, overflow_checks, tasks, backoff_call, backoff_result, io_vars >>

(***************************************************************************)
(* The two mutexes.  The scheduler core is an Arc<Mutex<Scheduler>>, the   *)
(* Store an Arc<Mutex<Db>>, both of std::sync.  A task is the sequence of  *)
(* steps it has still to take: "lock_core" and "unlock_core" are           *)
(* scheduler.lock() and the end of the guard's scope (or drop), likewise   *)
(* for the Store; "await" is a point where the task suspends; "spawn" is   *)
(* the start of a child process (cmd.spawn() or a hook);                   *)
(* "task_execute" and "task_completion" are the two tokio::spawn calls     *)
(* that start an execute_job task and the task that waits for the child.   *)
(***************************************************************************)
\* the number of tasks that execute jobs at one time
MaxSlots == 1

SlotNames == << "x1", "x2", "x3", "x4" >>

Slots == {SlotNames[i] : i \in 1 .. MaxSlots}

TickTask == "tick"

ConnTask == "conn"

TaskNames == {TickTask, ConnTask} \cup Slots

\* a lock and the end of its guard with nothing but Scheduler fields between
CoreSection == << "lock_core", "unlock_core" >>

\* db.lock().unwrap().<write>(..): the guard is a temporary of the statement
StoreSection == << "lock_store", "unlock_store" >>

\* mutant of TickLoop: the due-set is dispatched before the guard is dropped
TickLoop_DispatchLocked ==
    << "await", "lock_core", "task_execute", "unlock_core" >>

\* one round of the tick task: interval.tick().await, lock, sched.tick(),
\* drop(sched), tokio::spawn for the due jobs
TickLoop == << "await", "lock_core", "unlock_core", "task_execute" >>

\* Scheduler::add_job and Scheduler::remove_job called by a handler that
\* holds the core lock: the Store is locked for the write, then the map is
\* changed, then the handler's block ends
AddJobArm == << "lock_core" >> \o StoreSection \o << "unlock_core" >>

RemoveJobArm == << "lock_core" >> \o StoreSection \o << "unlock_core" >>

\* a request that is refused, ListJobs and GetJob: the core lock alone
ReadArm == CoreSection

\* GetHistory: sched is locked for the whole arm, the Store for the match
GetHistoryArm == << "lock_core" >> \o StoreSection \o << "unlock_core" >>

\* the spawn Err branch of execute_job: log_history, then finish_job
SpawnError == StoreSection \o CoreSection

\* execute_job up to cmd.spawn() and the branch taken on its result
ExecuteJobPaths ==
    { CoreSection \o << "spawn", "task_completion" >>,
      CoreSection \o << "spawn" >> \o SpawnError }

\* StartJob: the context is inserted under the lock, drop(sched), then
\* execute_job runs in the handler
StartJobArms == { CoreSection \o path : path \in ExecuteJobPaths }

HandlerArms ==
    {AddJobArm, RemoveJobArm, ReadArm, GetHistoryArm} \cup StartJobArms

\* a connection task: socket.read().await, the arm, write_all().await
Connection(arm) == << "await" >> \o arm \o << "await" >>

\* the exit branches that change retry_state and write one row: success
\* and exhausted failure (with or without a hook), failure with a retry
OnExit(hook) ==
    CoreSection \o StoreSection \o (IF hook THEN << "spawn" >> ELSE << >>)

\* mutant of OnWaitError: finish_job is called while the Store is locked
OnWaitError_FinishInside ==
    << "lock_store" >> \o CoreSection \o << "unlock_store" >>

\* wait_with_output returned Err: log_history "Error"
OnWaitError == StoreSection

\* the completion task: the wait, one branch, finish_job
CompletionPaths ==
    { << "await" >> \o branch \o CoreSection :
          branch \in {OnExit(TRUE), OnExit(FALSE), OnWaitError} }

NoTask == [code |-> << >>, held |-> << >>]

TasksAtStart ==
    [t \in TaskNames |->
        IF t = TickTask THEN [code |-> TickLoop, held |-> << >>] ELSE NoTask]

Holds(t, lock) == \E i \in 1 .. Len(tasks[t].held) : tasks[t].held[i] = lock

Free(lock) == \A t \in TaskNames : ~Holds(t, lock)

NextOp(t) == IF tasks[t].code = << >> THEN "-" ELSE Head(tasks[t].code)

\* what is left of the task once it has taken its next step; the tick
\* task loops
Rest(t) ==
    IF t = TickTask /\ Len(tasks[t].code) = 1 THEN TickLoop
    ELSE Tail(tasks[t].code)

LockName(op) == IF op \in {"lock_core", "unlock_core"} THEN "core" ELSE "store"

lock_unchanged ==
    UNCHANGED << sched_vars, db_vars, execs, due, next_eid, now, response,
                 overflow_checks, backoff_call, backoff_result, io_vars >>

\* Mutex::lock: the task waits until the mutex is free
Lock(t) ==
    /\ NextOp(t) \in {"lock_core", "lock_store"}
    /\ Free(LockName(NextOp(t)))
    /\ tasks' = [tasks EXCEPT ![t] =
                    [code |-> Rest(t),
                     held |-> Append(tasks[t].held, LockName(NextOp(t)))]]
    /\ lock_unchanged

\* the guard is dropped
Unlock(t) ==
    /\ NextOp(t) \in {"unlock_core", "unlock_store"}
    /\ tasks' = [tasks EXCEPT ![t] =
                    [code |-> Rest(t),
                     held |-> SelectSeq(tasks[t].held,
                                  LAMBDA l : l # LockName(NextOp(t)))]]
    /\ lock_unchanged

\* the task is resumed at an await, or has started a child process
Proceed(t) ==
    /\ NextOp(t) \in {"await", "spawn"}
    /\ tasks' = [tasks EXCEPT ![t].code = Rest(t)]
    /\ lock_unchanged

\* the slots that can run a task started by t: those not in use, and the
\* slot of t when the tokio::spawn is the last step of t
IdleSlots(t) ==
    {s \in Slots : IF s = t THEN Len(tasks[t].code) = 1
                   ELSE tasks[s].code = << >>}

\* tokio::spawn: a slot runs the new task; with every slot in use no task
\* is started, and the tick task starts none when no job is due
SpawnTask(t) ==
    /\ NextOp(t) \in {"task_execute", "task_completion"}
    /\ \/ \E s \in IdleSlots(t), path \in
               (IF NextOp(t) = "task_execute" THEN ExecuteJobPaths
                ELSE CompletionPaths) :
             tasks' = [[tasks EXCEPT ![t].code = Rest(t)]
                          EXCEPT ![s].code = path]
       \/ /\ NextOp(t) = "task_execute" \/ IdleSlots(t) = {}
          /\ tasks' = [tasks EXCEPT ![t].code = Rest(t)]
    /\ lock_unchanged

\* a client connects and sends one request
Connect(arm) ==
    /\ tasks[ConnTask].code = << >>
    /\ tasks' = [tasks EXCEPT ![ConnTask].code = Connection(arm)]
    /\ lock_unchanged

(***************************************************************************)
(* The daemon: Scheduler::new, then the tick task, the connection handlers *)
(* and the execution tasks, interleaved.                                   *)
(***************************************************************************)
NoCall == [attempt |-> 0, strategy |-> "-"]

NoResult == [panic |-> FALSE, value |-> << >>]

\* Scheduler::new over a Store that holds the jobs stored, the wall clock
\* reading t
BootAt(stored, t) ==
    /\ jobs = load_jobs([id \in DOMAIN stored |-> DbRow(stored[id])])
    /\ last_runs = EmptyMap
    /\ last_execution_windows = EmptyMap
    /\ running_jobs = EmptyMap
    /\ retry_state = EmptyMap
    /\ db_jobs = [id \in DOMAIN stored |-> DbRow(stored[id])]
    /\ history = << >>
    /\ retry_attempts = << >>
    /\ execs = {}
    /\ due = << >>
    /\ next_eid = 1
    /\ now = t
    /\ response = [tag |-> "-", value |-> << >>]
    /\ conn = NoConnection
    /\ children = EmptyMap
    /\ enforcers = {}
    /\ daemon = Serving
    /\ tasks = TasksAtStart

Boot(stored) == BootAt(stored, 0)

\* the connection handlers, for peers and documents drawn from the given sets
Requests(uids, docs, max_execs) ==
    \/ \E peer_uid \in uids, doc \in docs : AddJob(peer_uid, doc)
    \/ \E peer_uid \in uids, id \in JobIds : RemoveJob(peer_uid, id)
    \/ \E peer_uid \in uids, id \in JobIds : StartJob(peer_uid, id, max_execs)

Executions ==
    \/ \E e \in execs, spawned \in BOOLEAN : ExecuteJob(e, spawned)
    \/ \E e \in execs, success \in BOOLEAN : ChildExit(e, success)
    \/ \E e \in execs : WaitError(e)
    \/ \E e \in execs : LogResult(e)
    \/ \E e \in execs : FinishJob(e)

(***************************************************************************)
(* Spec: one unprivileged client editing, starting and removing a job      *)
(* while the tick task and the executions run.                             *)
(***************************************************************************)
Init ==
    /\ Boot(EmptyMap)
    /\ overflow_checks = FALSE
    /\ backoff_call = NoCall
    /\ backoff_result = NoResult

\* the handler overwrites the owner an unprivileged client sent: one value
SpecDocs == {doc \in JobDocs : doc.owner = ""}

Next ==
    \/ Requests({1000}, SpecDocs, MaxExecs)
    \/ Tick(MaxExecs)
    \/ Dispatch
    \/ Executions
    \/ AdvanceTime(MaxTime)

Spec == Init /\ [][Next]_vars

(***************************************************************************)
(* SpecCtl: a root client and an unprivileged client sending requests for  *)
(* the same job while it is scheduled and run.                             *)
(***************************************************************************)
CtlDocs == {doc \in JobDocs : doc.retry_policy = NoRetry}

NextCtl ==
    \/ Requests(Uids, CtlDocs, MaxExecs)
    \/ Tick(MaxExecs)
    \/ Dispatch
    \/ Executions
    \/ AdvanceTime(MaxTime)

SpecCtl == Init /\ [][NextCtl]_vars

(***************************************************************************)
(* SpecTick: the tick task over a Store that holds a job due every second  *)
(* by schedule and retried at once after a failure, while the clock runs   *)
(* past the lag limit of ScheduleConfig::Every and a client starts the job *)
(* by hand.                                                                *)
(***************************************************************************)
TickMaxTime == 12

TickMaxExecs == 2

TickJobs ==
    [id \in {"a"} |->
        [id |-> id, owner |-> "root", enabled |-> TRUE, schedule |-> Every(1),
         retry_policy |-> FixedRetry, jitter_seconds |-> 0,
         timezone |-> NoTimezone, timeout_seconds |-> NoTimeout]]

InitTick ==
    /\ Boot(TickJobs)
    /\ overflow_checks = FALSE
    /\ backoff_call = NoCall
    /\ backoff_result = NoResult

NextTick ==
    \/ \E id \in JobIds : StartJob(0, id, TickMaxExecs)
    \/ Tick(TickMaxExecs)
    \/ Dispatch
    \/ \E e \in execs : ExecuteJob(e, TRUE)
    \/ \E e \in execs, success \in BOOLEAN : ChildExit(e, success)
    \/ \E e \in execs : LogResult(e)
    \/ \E e \in execs : FinishJob(e)
    \/ AdvanceTime(TickMaxTime)

SpecTick == InitTick /\ [][NextTick]_vars

(***************************************************************************)
(* SpecEvery: a stored interval job, with or without jitter, whose         *)
(* executions succeed, ticked at arbitrary whole seconds while the clock   *)
(* runs past the lag limit.                                                *)
(***************************************************************************)
EveryMaxTime == 12

EveryMaxExecs == 3

\* [interval, jitter_seconds] of the stored job
EveryShapes == {<< 1, 0 >>, << 2, 0 >>, << 2, 2 >>}

EveryJob(seconds, jitter_seconds) ==
    [id |-> "a", owner |-> "root", enabled |-> TRUE,
     schedule |-> Every(seconds), retry_policy |-> NoRetry,
     jitter_seconds |-> jitter_seconds, timezone |-> NoTimezone,
     timeout_seconds |-> NoTimeout]

InitEvery ==
    /\ \E shape \in EveryShapes :
           Boot([id \in {"a"} |-> EveryJob(shape[1], shape[2])])
    /\ overflow_checks = FALSE
    /\ backoff_call = NoCall
    /\ backoff_result = NoResult

NextEvery ==
    \/ Tick(EveryMaxExecs)
    \/ Dispatch
    \/ \E e \in execs : ExecuteJob(e, TRUE)
    \/ \E e \in execs : ChildExit(e, TRUE)
    \/ \E e \in execs : LogResult(e)
    \/ \E e \in execs : FinishJob(e)
    \/ AdvanceTime(EveryMaxTime)

SpecEvery == InitEvery /\ [][NextEvery]_vars

(***************************************************************************)
(* SpecCron: a stored cron job, with or without jitter, whose executions   *)
(* succeed, ticked at arbitrary whole seconds and more than once in a      *)
(* second.                                                                 *)
(***************************************************************************)
CronMaxTime == 11

CronMaxExecs == 3

CronJob(expression, jitter_seconds) ==
    [id |-> "b", owner |-> "root", enabled |-> TRUE,
     schedule |-> Cron(expression), retry_policy |-> NoRetry,
     jitter_seconds |-> jitter_seconds, timezone |-> NoTimezone,
     timeout_seconds |-> NoTimeout]

InitCron ==
    /\ \E expression \in {CronEveryFive, CronYear2030, CronGarbage},
          jitter_seconds \in {0, 2} :
           Boot([id \in {"b"} |-> CronJob(expression, jitter_seconds)])
    /\ overflow_checks = FALSE
    /\ backoff_call = NoCall
    /\ backoff_result = NoResult

NextCron ==
    \/ Tick(CronMaxExecs)
    \/ Dispatch
    \/ \E e \in execs : ExecuteJob(e, TRUE)
    \/ \E e \in execs : ChildExit(e, TRUE)
    \/ \E e \in execs : LogResult(e)
    \/ \E e \in execs : FinishJob(e)
    \/ AdvanceTime(CronMaxTime)

SpecCron == InitCron /\ [][NextCron]_vars

(***************************************************************************)
(* SpecCalendar: a stored calendar job around 14:00:00 UTC of Monday       *)
(* 2024-01-01 (09:00:00 in New York, 15:00:00 on the host), ticked any     *)
(* number of times in a second, while root may move its time by a second.  *)
(***************************************************************************)
\* 13:59:58 UTC of the first day
CalendarStart == 14 * 3600 - 2

\* seconds the clock runs
CalendarMaxTime == 4

CalendarMaxExecs == 3

CalendarJob(schedule, timezone, jitter_seconds) ==
    [id |-> "a", owner |-> "root", enabled |-> TRUE,
     schedule |-> schedule, retry_policy |-> NoRetry,
     jitter_seconds |-> jitter_seconds, timezone |-> timezone,
     timeout_seconds |-> NoTimeout]

CalendarJobs ==
    { CalendarJob(Calendar(<< 9, 0, 0 >>, DaysOfWeek({1}), AnyWeek),
                  "America/New_York", 0),
      CalendarJob(Calendar(<< 8, 59, 59 >>, AnyDay, AnyWeek),
                  "America/New_York", 2),
      CalendarJob(Calendar(<< 15, 0, 0 >>, AnyDay, NthWeekday(1, 1)),
                  NoTimezone, 0),
      CalendarJob(Calendar(<< 15, 0, 0 >>, DaysOfWeek({2, 7}), AnyWeek),
                  NoTimezone, 0),
      CalendarJob(Calendar(<< 15, 0, 0 >>, AnyDay, NthWeekday(2, 1)),
                  NoTimezone, 0),
      CalendarJob(Calendar(<< 15, 0, 0 >>, AnyDay, AnyWeek),
                  "Mars/Phobos", 0) }

\* the document root sends to move the time of the New York job
CalendarEdit ==
    CalendarJob(Calendar(<< 9, 0, 1 >>, DaysOfWeek({1}), AnyWeek),
                "America/New_York", 0)

InitCalendar ==
    /\ \E job \in CalendarJobs :
           BootAt([id \in {"a"} |-> job], CalendarStart)
    /\ overflow_checks = FALSE
    /\ backoff_call = NoCall
    /\ backoff_result = NoResult

NextCalendar ==
    \/ AddJob(0, CalendarEdit)
    \/ Tick(CalendarMaxExecs)
    \/ Dispatch
    \/ \E e \in execs : ExecuteJob(e, TRUE)
    \/ \E e \in execs : ChildExit(e, TRUE)
    \/ \E e \in execs : LogResult(e)
    \/ \E e \in execs : FinishJob(e)
    \/ AdvanceTime(CalendarStart + CalendarMaxTime)

SpecCalendar == InitCalendar /\ [][NextCalendar]_vars

(***************************************************************************)
(* SpecDisable: a stored job, retried at once after a failure, that root   *)
(* replaces by the same definition with enabled = false while one of its   *)
(* executions is in flight.                                                *)
(***************************************************************************)
DisableMaxTime == 2

DisableMaxExecs == 3

\* the AddJob document that disables a job of the job table
Disabled(job) == [job EXCEPT !.enabled = FALSE]

InitDisable ==
    /\ Boot(TickJobs)
    /\ overflow_checks = FALSE
    /\ backoff_call = NoCall
    /\ backoff_result = NoResult

NextDisable ==
    \/ \E id \in DOMAIN running_jobs : AddJob(0, Disabled(jobs[id]))
    \/ Tick(DisableMaxExecs)
    \/ Dispatch
    \/ \E e \in execs : ExecuteJob(e, TRUE)
    \/ \E e \in execs, success \in BOOLEAN : ChildExit(e, success)
    \/ \E e \in execs : LogResult(e)
    \/ \E e \in execs : FinishJob(e)
    \/ AdvanceTime(DisableMaxTime)

SpecDisable == InitDisable /\ [][NextDisable]_vars

(***************************************************************************)
(* SpecFinish: one stored job with a steep Linear retry policy, fired by   *)
(* the tick or started by hand, whose executions end in every way          *)
(* execute_job distinguishes, run by either build of the daemon.  The      *)
(* runtime schedules every task, and every child terminates.               *)
(***************************************************************************)
FinishMaxTime == 2

FinishMaxExecs == 3

\* initial_delay_seconds = 2^63: the delay of the second failure overflows
SteepRetry ==
    [max_attempts |-> 2, backoff_strategy |-> "Linear",
     initial_delay_seconds |-> Wrap64(BigPow2(U64Bits - 1)),
     max_delay_seconds |-> U64(1)]

FinishJobs ==
    [id \in {"a"} |->
        [id |-> id, owner |-> "root", enabled |-> TRUE, schedule |-> Every(2),
         retry_policy |-> SteepRetry, jitter_seconds |-> 0,
         timezone |-> NoTimezone, timeout_seconds |-> NoTimeout]]

InitFinish ==
    /\ Boot(FinishJobs)
    /\ overflow_checks \in BOOLEAN
    /\ backoff_call = NoCall
    /\ backoff_result = NoResult

NextFinish ==
    \/ \E id \in JobIds : StartJob(0, id, FinishMaxExecs)
    \/ Tick(FinishMaxExecs)
    \/ Dispatch
    \/ Executions
    \/ AdvanceTime(FinishMaxTime)

\* the steps that come without outside help: the tick task spawns what
\* tick returned, the runtime polls every spawned task, wait_with_output
\* returns when the child has terminated
Scheduled ==
    \/ Dispatch
    \/ \E e \in execs : WaitError(e)
    \/ \E e \in execs : LogResult(e)
    \/ \E e \in execs : FinishJob(e)
    \/ \E e \in execs, spawned \in BOOLEAN : ExecuteJob(e, spawned)
    \/ \E e \in execs, success \in BOOLEAN : ChildExit(e, success)

SpecFinish == InitFinish /\ [][NextFinish]_vars /\ WF_vars(Scheduled)

(***************************************************************************)
(* SpecStore: clients add, replace and remove jobs of every schedule kind, *)
(* and the daemon is started again over the Store it left.                 *)
(***************************************************************************)
StoreIds == {"a", "b"}

\* [schedule, enabled, retry_policy, jitter_seconds, timezone,
\* timeout_seconds]
StoreShapes ==
    { << Every(1), TRUE, NoRetry, 0, NoTimezone, NoTimeout >>,
      << Every(12), TRUE, LinearRetry, 3, "UTC", Timeout(2) >>,
      << Cron(CronEveryFive), FALSE, FixedRetry, 0, "America/New_York",
         NoTimeout >>,
      << Calendar(<< 9, 0, 0 >>, DaysOfWeek({1}), AnyWeek), TRUE, NoRetry, 0,
         "America/New_York", NoTimeout >>,
      << Calendar(<< 15, 0, 0 >>, AnyDay, NthWeekday(2, 1)), TRUE, NoRetry, 2,
         NoTimezone, Timeout(60) >> }

StoreDocs ==
    { [id |-> id, owner |-> "", enabled |-> shape[2], schedule |-> shape[1],
       retry_policy |-> shape[3], jitter_seconds |-> shape[4],
       timezone |-> shape[5],
       timeout_seconds |-> shape[6]] : id \in StoreIds, shape \in StoreShapes }

InitStore ==
    /\ Boot(EmptyMap)
    /\ overflow_checks = FALSE
    /\ backoff_call = NoCall
    /\ backoff_result = NoResult

\* the daemon is stopped and started: Scheduler::new over the Store as it is
Restart ==
    /\ execs = {} /\ due = << >>
    /\ jobs' = load_jobs(db_jobs)
    /\ last_runs' = EmptyMap
    /\ last_execution_windows' = EmptyMap
    /\ running_jobs' = EmptyMap
    /\ retry_state' = EmptyMap
    /\ response' = [tag |-> "-", value |-> << >>]
    /\ UNCHANGED << db_vars, execs, due, next_eid, now, overflow_checks, tasks,
                    backoff_call, backoff_result, io_vars >>

NextStore ==
    \/ \E peer_uid \in Uids, doc \in StoreDocs : AddJob(peer_uid, doc)
    \/ \E peer_uid \in Uids, id \in StoreIds : RemoveJob(peer_uid, id)
    \/ Restart

SpecStore == InitStore /\ [][NextStore]_vars

(***************************************************************************)
(* SpecConn: one client connection.  The client writes up to               *)
(* ConnMaxRequests request documents, waiting for a response or not, and   *)
(* the socket hands the bytes to the connection task in pieces of any      *)
(* size.                                                                   *)
(***************************************************************************)
ConnMaxRequests == 3

ConnRequests ==
    {AddJobRequest(doc) : doc \in {d \in SpecDocs : d.id = "a"}}
        \cup {RemoveJobRequest("a")}

InitConn ==
    /\ Boot(EmptyMap)
    /\ overflow_checks = FALSE
    /\ backoff_call = NoCall
    /\ backoff_result = NoResult

NextConn ==
    \/ \E peer_uid \in Uids : Accept(peer_uid)
    \/ \E request \in ConnRequests :
           Len(conn.sent) < ConnMaxRequests /\ ClientSend(request)
    \/ ClientClose
    \/ \E n \in 1..(2 * ConnMaxRequests) : Read(n)
    \/ ReadEof

SpecConn == InitConn /\ [][NextConn]_vars

(***************************************************************************)
(* SpecTimeout: a stored job with a timeout and no retries, started by     *)
(* root.  The runtime serves a timer in the second it expires and a child  *)
(* that was sent SIGKILL ends in that second; a child that was sent        *)
(* SIGTERM may take its time.                                              *)
(***************************************************************************)
TimeoutMaxTime == 5

TimeoutMaxExecs == 1

TimeoutJobs ==
    [id \in {"a"} |->
        [id |-> id, owner |-> "root", enabled |-> FALSE,
         schedule |-> Every(1), retry_policy |-> NoRetry,
         jitter_seconds |-> 0, timezone |-> NoTimezone,
         timeout_seconds |-> Timeout(2)]]

\* no timer is overdue and no child of the daemon outlives its SIGKILL
Prompt ==
    /\ \A w \in enforcers : now < w.wake
    /\ \A pid \in DOMAIN children :
           children[pid].owner = "job" =>
               \A i \in 1..Len(children[pid].signals) :
                   children[pid].signals[i].name # "SIGKILL"

InitTimeout ==
    /\ Boot(TimeoutJobs)
    /\ overflow_checks = FALSE
    /\ backoff_call = NoCall
    /\ backoff_result = NoResult

NextTimeout ==
    \/ \E id \in DOMAIN TimeoutJobs : StartJob(0, id, TimeoutMaxExecs)
    \/ \E e \in execs, spawned \in BOOLEAN : ExecuteJob(e, spawned)
    \/ \E e \in execs, success \in BOOLEAN : ChildExit(e, success)
    \/ \E e \in execs : LogResult(e)
    \/ \E e \in execs : FinishJob(e)
    \/ \E w \in enforcers : EnforceTimeout(w)
    \/ \E w \in enforcers : EnforceKill(w)
    \/ \E pid \in 1..TimeoutMaxExecs : PidReuse(pid)
    \/ Prompt /\ AdvanceTime(TimeoutMaxTime)

SpecTimeout == InitTimeout /\ [][NextTimeout]_vars

(***************************************************************************)
(* SpecShutdown: a stored Every job, a client, and a SIGTERM or SIGINT at  *)
(* any moment.  The tick task, the execution tasks and the connection      *)
(* tasks run on the runtime's other threads until main has returned.       *)
(***************************************************************************)
ShutdownMaxTime == 2

ShutdownMaxExecs == 2

InitShutdown ==
    /\ Boot([id \in {"a"} |-> EveryJob(1, 0)])
    /\ overflow_checks = FALSE
    /\ backoff_call = NoCall
    /\ backoff_result = NoResult

\* the tasks the runtime still runs
Running ==
    \/ Tick(ShutdownMaxExecs)
    \/ Dispatch
    \/ \E e \in execs : ExecuteJob(e, TRUE)
    \/ \E e \in execs : ChildExit(e, TRUE)
    \/ \E e \in execs : LogResult(e)
    \/ \E e \in execs : FinishJob(e)

NextShutdown ==
    \/ daemon.phase # "exited" /\ Running
    \/ \E peer_uid \in Uids : Accept(peer_uid)
    \/ \E name \in {"SIGTERM", "SIGINT"} : Signal(name)
    \/ Exit
    \/ AdvanceTime(ShutdownMaxTime)

SpecShutdown == InitShutdown /\ [][NextShutdown]_vars

(***************************************************************************)
(* SpecRemove: a stored Every job with one retry, removed and added again  *)
(* by root while its executions fail or succeed.                           *)
(***************************************************************************)
RemoveMaxTime == 2

RemoveMaxExecs == 3

RetriedJob ==
    [id |-> "a", owner |-> "root", enabled |-> TRUE, schedule |-> Every(1),
     retry_policy |-> FixedRetry, jitter_seconds |-> 0,
     timezone |-> NoTimezone, timeout_seconds |-> NoTimeout]

InitRemove ==
    /\ Boot([id \in {"a"} |-> RetriedJob])
    /\ overflow_checks = FALSE
    /\ backoff_call = NoCall
    /\ backoff_result = NoResult

NextRemove ==
    \/ RemoveJob(0, "a")
    \/ AddJob(0, RetriedJob)
    \/ Tick(RemoveMaxExecs)
    \/ Dispatch
    \/ \E e \in execs : ExecuteJob(e, TRUE)
    \/ \E e \in execs, success \in BOOLEAN : ChildExit(e, success)
    \/ \E e \in execs : LogResult(e)
    \/ \E e \in execs : FinishJob(e)
    \/ AdvanceTime(RemoveMaxTime)

SpecRemove == InitRemove /\ [][NextRemove]_vars

(***************************************************************************)
(* SpecUnsaved: AddJob requests whose Store write succeeds or fails, the   *)
(* ticks and executions that follow, and a restart of the daemon.          *)
(***************************************************************************)
UnsavedMaxTime == 2

UnsavedMaxExecs == 2

UnsavedDocs ==
    { [id |-> "a", owner |-> "", enabled |-> enabled,
       schedule |-> Every(seconds), retry_policy |-> NoRetry,
       jitter_seconds |-> 0, timezone |-> NoTimezone,
       timeout_seconds |-> NoTimeout] :
          enabled \in BOOLEAN, seconds \in {1} }

InitUnsaved ==
    /\ Boot(EmptyMap)
    /\ overflow_checks = FALSE
    /\ backoff_call = NoCall
    /\ backoff_result = NoResult

NextUnsaved ==
    \/ \E peer_uid \in Uids, doc \in UnsavedDocs : AddJob(peer_uid, doc)
    \/ \E peer_uid \in Uids, doc \in UnsavedDocs : AddJobUnsaved(peer_uid, doc)
    \/ \E peer_uid \in Uids : RemoveJob(peer_uid, "a")
    \/ Tick(UnsavedMaxExecs)
    \/ Dispatch
    \/ \E e \in execs : ExecuteJob(e, TRUE)
    \/ \E e \in execs : ChildExit(e, TRUE)
    \/ \E e \in execs : LogResult(e)
    \/ \E e \in execs : FinishJob(e)
    \/ AdvanceTime(UnsavedMaxTime)
    \/ Restart

SpecUnsaved == InitUnsaved /\ [][NextUnsaved]_vars

(***************************************************************************)
(* SpecLocks: the tick task, a connection task and the execution tasks,    *)
(* interleaved at the grain of their lock operations.                      *)
(***************************************************************************)
InitLocks ==
    /\ Boot(EmptyMap)
    /\ overflow_checks = FALSE
    /\ backoff_call = NoCall
    /\ backoff_result = NoResult

NextLocks ==
    \/ \E t \in TaskNames : Lock(t)
    \/ \E t \in TaskNames : Unlock(t)
    \/ \E t \in TaskNames : Proceed(t)
    \/ \E t \in TaskNames : SpawnTask(t)
    \/ \E arm \in HandlerArms : Connect(arm)

SpecLocks == InitLocks /\ [][NextLocks]_vars

(***************************************************************************)
(* SpecPending: a stored Every(1) job whose retries are three seconds      *)
(* away, so that its schedule comes due while a retry is pending.          *)
(***************************************************************************)
PendingMaxTime == 3

PendingMaxExecs == 3

SlowRetry ==
    [max_attempts |-> 2, backoff_strategy |-> "Fixed",
     initial_delay_seconds |-> U64(3), max_delay_seconds |-> U64(3)]

PendingJob ==
    [id |-> "a", owner |-> "root", enabled |-> TRUE, schedule |-> Every(1),
     retry_policy |-> SlowRetry, jitter_seconds |-> 0,
     timezone |-> NoTimezone, timeout_seconds |-> NoTimeout]

InitPending ==
    /\ Boot([id \in {"a"} |-> PendingJob])
    /\ overflow_checks = FALSE
    /\ backoff_call = NoCall
    /\ backoff_result = NoResult

NextPending ==
    \/ Tick(PendingMaxExecs)
    \/ Dispatch
    \/ \E e \in execs : ExecuteJob(e, TRUE)
    \/ \E e \in execs, success \in BOOLEAN : ChildExit(e, success)
    \/ \E e \in execs : LogResult(e)
    \/ \E e \in execs : FinishJob(e)
    \/ AdvanceTime(PendingMaxTime)

SpecPending == InitPending /\ [][NextPending]_vars

(***************************************************************************)
(* SpecChain: a stored job whose command always exits non-zero, run by     *)
(* either build of the daemon.  Its executions are short: a second passes  *)
(* only when no execution is in flight and the tick has nothing to         *)
(* dispatch.                                                               *)
(***************************************************************************)
\* max_attempts of the long chain
LongChain == 65

ChainMaxTime == LongChain + 1

ChainMaxExecs == LongChain + 2

\* the scenario of the spec (max 3, Exponential) with a one-second unit
ScenarioRetry ==
    [max_attempts |-> 3, backoff_strategy |-> "Exponential",
     initial_delay_seconds |-> U64(1), max_delay_seconds |-> U64(3600)]

LongRetry ==
    [max_attempts |-> LongChain, backoff_strategy |-> "Exponential",
     initial_delay_seconds |-> U64(1), max_delay_seconds |-> U64(1)]

ChainJob(retry_policy) ==
    [id |-> "a", owner |-> "root", enabled |-> TRUE,
     schedule |-> Every(ChainMaxTime + 1), retry_policy |-> retry_policy,
     jitter_seconds |-> 0, timezone |-> NoTimezone,
     timeout_seconds |-> NoTimeout]

InitChain ==
    /\ \E retry_policy \in {ScenarioRetry, LongRetry} :
           Boot([id \in {"a"} |-> ChainJob(retry_policy)])
    /\ overflow_checks \in BOOLEAN
    /\ backoff_call = NoCall
    /\ backoff_result = NoResult

\* nothing is running and a tick now would dispatch nothing
Quiescent ==
    /\ execs = {} /\ due = << >>
    /\ \A id \in DOMAIN retry_state : ~RetryDue(retry_state[id], now)
    /\ \A id \in DOMAIN jobs : ~ShouldRun(jobs[id], now).should_run

NextChain ==
    \/ Tick(ChainMaxExecs)
    \/ Dispatch
    \/ \E e \in execs : ExecuteJob(e, TRUE)
    \/ \E e \in execs : ChildExit(e, FALSE)
    \/ \E e \in execs : LogResult(e)
    \/ \E e \in execs : FinishJob(e)
    \/ Quiescent /\ AdvanceTime(ChainMaxTime)

SpecChain == InitChain /\ [][NextChain]_vars

(***************************************************************************)
(* SpecBackoff: calculate_backoff_delay applied to arguments drawn from    *)
(* the attempts up to the width of a u64 and from u64 values at both ends  *)
(* of the range, in either build.                                          *)
(***************************************************************************)
BackoffMaxAttempt == 64

\* 2^64 - 1
U64Max == [i \in 1 .. Limbs |-> LimbBase - 1]

U64Samples ==
    {U64(0), U64(1), U64(60), U64(3600), Wrap64(BigPow2(32)),
     Wrap64(BigPow2(U64Bits - 1)), U64Max}

BackoffCalls ==
    [attempt : 0 .. BackoffMaxAttempt, strategy : BackoffStrategy,
     initial_delay : U64Samples, max_delay : U64Samples]

InitBackoff ==
    /\ Boot(EmptyMap)
    /\ overflow_checks \in BOOLEAN
    /\ backoff_call \in BackoffCalls
    /\ backoff_result = NoResult

CallBackoff ==
    /\ backoff_result = NoResult
    /\ backoff_result' =
           calculate_backoff_delay(backoff_call.attempt, backoff_call.strategy,
               backoff_call.initial_delay, backoff_call.max_delay,
               overflow_checks)
    /\ UNCHANGED << sched_vars, db_vars, execs, due, next_eid, now, response,
                    overflow_checks, tasks, backoff_call, io_vars >>

NextBackoff == CallBackoff

SpecBackoff == InitBackoff /\ [][NextBackoff]_vars

(***************************************************************************)
(* Properties.                                                             *)
(***************************************************************************)
\* the executions of job id in flight: dispatched by the tick and not yet
\* spawned as a task, or a task that has not finished
InFlightEids(id) ==
    {e.eid : e \in {x \in execs : x.job.id = id}}
        \cup {due[i].eid : i \in {j \in 1 .. Len(due) : due[j].job.id = id}}

InFlightCount(id) ==
    Cardinality({x \in execs : x.job.id = id})
        + Cardinality({j \in 1 .. Len(due) : due[j].job.id = id})

\* C1: at most one execution of a job id is in flight, and while one is,
\* running_jobs holds the context of that execution for the id.
C1_AtMostOneInFlight ==
    \A id \in JobIds :
        /\ InFlightCount(id) <= 1
        /\ InFlightCount(id) = 1 =>
               /\ id \in DOMAIN running_jobs
               /\ InFlightEids(id) = {running_jobs[id].execution_id}

\* C1 witness: a retry of the job is running when a StartJob for it is refused
C1_Witness ==
    /\ \E e \in execs : e.origin = "retry" /\ e.pc = "running"
    /\ response = Error(<< "Job is already running" >>)

\* the owner label of a peer, as the specification of the control plane gives it
RequesterLabel(peer_uid) == IF peer_uid = 0 THEN "root" ELSE "lunasched"

\* C2: the owner AddJob stores is decided by the peer uid alone: requests
\* that differ only in the owner the client wrote leave the same state and
\* response, an accepted job is owned by the label of the peer uid, and no
\* job of the table has an empty owner.
C2_OwnerFromPeerUid ==
    /\ \A peer_uid \in Uids, d1 \in JobDocs, d2 \in JobDocs :
           [d1 EXCEPT !.owner = d2.owner] = d2 =>
               AddJobResult(Core, peer_uid, d1) = AddJobResult(Core, peer_uid, d2)
    /\ \A peer_uid \in Uids, doc \in JobDocs :
           LET r == AddJobResult(Core, peer_uid, doc)
           IN  r.response = Ok =>
                   /\ doc.id \in DOMAIN r.core.jobs
                   /\ r.core.jobs[doc.id].owner = RequesterLabel(peer_uid)
                   /\ r.core.db_jobs[doc.id].owner = RequesterLabel(peer_uid)
    /\ \A id \in DOMAIN jobs : jobs[id].owner \in {"root", "lunasched"}

\* C2 witness: an AddJob of the unprivileged client was accepted; no document
\* a client sends names "lunasched" as its owner
C2_Witness ==
    /\ \A doc \in JobDocs : doc.owner # "lunasched"
    /\ response = Ok
    /\ \E id \in DOMAIN jobs : jobs[id].owner = "lunasched"

\* C3: AddJob, RemoveJob and StartJob of a non-root requester for a job of
\* another owner answer Permission denied and change nothing.
C3_PermissionDeniedNoChange ==
    \A id \in DOMAIN jobs, peer_uid \in Uids :
        (peer_uid # 0 /\ jobs[id].owner # RequesterLabel(peer_uid)) =>
            /\ \A doc \in JobDocs :
                   doc.id = id =>
                       AddJobResult(Core, peer_uid, doc) =
                           [core |-> Core,
                            response |-> Denied("overwrite", jobs[id].owner)]
            /\ RemoveJobResult(Core, peer_uid, id) =
                   [core |-> Core, response |-> Denied("remove", jobs[id].owner)]
            /\ StartJobResult(Core, peer_uid, id, now) =
                   [core |-> Core, response |-> Denied("start", jobs[id].owner)]

\* C3 witness: a RemoveJob was refused for the job root added, which is kept
C3_Witness ==
    /\ response = Denied("remove", "root")
    /\ "a" \in DOMAIN jobs /\ jobs["a"].owner = "root"
    /\ "a" \in DOMAIN db_jobs

\* C4: StartJob of an authorized requester for an existing job: refused
\* with "Job is already running" and no change when the id has a context;
\* otherwise Ok, with exactly one context of a fresh execution id installed
\* and exactly one execution of the job dispatched, nothing else changed.
C4_StartJob ==
    \A id \in DOMAIN jobs, peer_uid \in Uids :
        (peer_uid = 0 \/ jobs[id].owner = RequesterLabel(peer_uid)) =>
            LET r == StartJobResult(Core, peer_uid, id, now)
                started == r.core.execs \ execs
            IN  IF id \in DOMAIN running_jobs
                THEN r = [core |-> Core,
                          response |-> Error(<< "Job is already running" >>)]
                ELSE /\ r.response = Ok
                     /\ DOMAIN r.core.running_jobs = (DOMAIN running_jobs) \cup {id}
                     /\ \A x \in DOMAIN running_jobs :
                            r.core.running_jobs[x] = running_jobs[x]
                     /\ \A x \in DOMAIN running_jobs :
                            running_jobs[x].execution_id #
                                r.core.running_jobs[id].execution_id
                     /\ execs \subseteq r.core.execs
                     /\ Cardinality(started) = 1
                     /\ \A e \in started :
                            /\ e.job = jobs[id]
                            /\ e.pc = "dispatched"
                            /\ e.eid = r.core.running_jobs[id].execution_id
                            /\ \A x \in execs : x.eid # e.eid
                     /\ [r.core EXCEPT !.running_jobs = running_jobs,
                                       !.execs = execs,
                                       !.next_eid = next_eid] = Core

\* C4 witness: a started execution is in flight and a second StartJob was refused
C4_Witness ==
    /\ \E e \in execs : e.origin = "start"
    /\ response = Error(<< "Job is already running" >>)

C6_SuccessClearsRetry ==
    /\ [](\A e \in execs :
             (e.outcome = "success" /\ e.pc \in {"log", "finish"}) =>
                 e.job.id \notin DOMAIN retry_state)
    /\ [][\A e \in execs :
             (e.outcome = "success" /\ e.pc = "finish" /\ e \notin execs') =>
                 e.job.id \notin DOMAIN retry_state']_vars

\* C6 witness: an execution that found a pending retry (attempt 1) exited
\* with status zero and is about to finish
C6_Witness ==
    \E e \in execs :
        e.outcome = "success" /\ e.pc = "finish" /\ e.current_attempt >= 1

\* C8: with every job definition at max_attempts = 0 (SpecCtl), no tick,
\* StartJob or execution outcome creates a retry_state entry.
C8_NoRetryStateWithoutRetries ==
    /\ \A doc \in CtlDocs : doc.retry_policy.max_attempts = 0
    /\ \A id \in DOMAIN jobs : jobs[id].retry_policy.max_attempts = 0
    /\ retry_state = EmptyMap

\* C8 witness: an execution of such a job has failed and was recorded as failed
C8_Witness ==
    /\ \E i \in 1 .. Len(history) : history[i].status = "failed"
    /\ \E i \in 1 .. Len(history) : history[i].status = "Error"

\* C10: the due-set a tick returns holds each job id at most once, also for
\* a job that is retry-due and schedule-due in that tick and for one that
\* missed several intervals, and every job in it has a context in
\* running_jobs carrying the execution id the tick gave it.
C10_DueSetDistinct ==
    /\ \A i, j \in 1 .. Len(due) : due[i].job.id = due[j].job.id => i = j
    /\ \A i \in 1 .. Len(due) :
           /\ due[i].job.id \in DOMAIN running_jobs
           /\ running_jobs[due[i].job.id].execution_id = due[i].eid

\* C10 witness: the tick dispatched the retry of a job whose schedule was
\* due at the same instant, two intervals or more behind
C10_Witness ==
    \E i \in 1 .. Len(due) :
        LET id == due[i].job.id
        IN  /\ due[i].origin = "retry"
            /\ id \in DOMAIN jobs
            /\ jobs[id].enabled
            /\ id \in DOMAIN last_runs
            /\ last_runs[id] + 2 * jobs[id].schedule.seconds
                   <= running_jobs[id].start_time

(***************************************************************************)
(* The delays of the specification: the products as mathematical values.  *)
(***************************************************************************)
BigEq(x, y) == ~BigLess(x, y) /\ ~BigLess(y, x)

BigMin(x, y) == IF BigLess(y, x) THEN y ELSE x

ReferenceDelay(attempt, strategy, initial, max) ==
    CASE strategy = "Fixed" -> initial
      [] strategy = "Linear" -> BigMin(BigMul(initial, U64(attempt + 1)), max)
      [] strategy = "Exponential" ->
            BigMin(BigMul(initial, BigPow2(attempt)), max)

\* C9 as claimed: for every attempt and every u64 initial and max,
\* calculate_backoff_delay returns the reference delay: Fixed gives initial,
\* Linear min(initial*(attempt+1), max), Exponential min(initial*2^attempt,
\* max), the products taken as mathematical values.
C9_EqualsReference ==
    backoff_result # NoResult =>
        /\ ~backoff_result.panic
        /\ BigEq(backoff_result.value,
                 ReferenceDelay(backoff_call.attempt, backoff_call.strategy,
                     backoff_call.initial_delay, backoff_call.max_delay))

\* the rows an execution has prepared and not yet written, of one table
PendingRows(table) == Cardinality({e \in execs : e.row.table = table})

\* C7 as claimed: every failure of an execution that read attempt a < m sets
\* retry_state[id] = {attempt: a+1, next_attempt_at: now + delay(a)}, delay
\* the reference delay, and prepares a retry-attempt row and no history row;
\* the failure that read a = m clears retry_state[id] and prepares one
\* history row "failed"; so each failed history row closes a chain of m
\* retry-attempt rows, m+1 executions, and every execution ends in finish_job.
C7_FailureChain ==
    /\ [][\A e \in execs :
             (e.pc = "running" /\ e \notin execs') =>
                 \E f \in execs' :
                     LET id == e.job.id
                         policy == e.job.retry_policy
                         a == e.current_attempt
                         delay == ReferenceDelay(a, policy.backoff_strategy,
                                      policy.initial_delay_seconds,
                                      policy.max_delay_seconds)
                     IN  /\ f.eid = e.eid /\ f.pc = "log"
                         /\ IF a < policy.max_attempts
                            THEN /\ id \in DOMAIN retry_state'
                                 /\ retry_state'[id] =
                                        [attempt |-> a + 1,
                                         next_attempt_at |-> now + U64ToNat(delay)]
                                 /\ f.row = RetryRow(id, a + 1, now + U64ToNat(delay))
                            ELSE /\ id \notin DOMAIN retry_state'
                                 /\ f.row = HistoryRow(id, "failed")]_vars
    /\ [](\A id \in DOMAIN jobs :
             Len(retry_attempts) + PendingRows("retry_attempts") =
                 jobs[id].retry_policy.max_attempts *
                     (Len(history) + PendingRows("history"))
                 + CurrentAttempt(id))

\* the tick of this step fires job id by its schedule
ScheduleFire(id) ==
    /\ due = << >>
    /\ \E i \in 1 .. Len(due') :
           due'[i].job.id = id /\ due'[i].origin = "schedule"

C12_BacklogNotReplayed ==
    [][\A id \in DOMAIN jobs :
          (/\ ScheduleFire(id)
           /\ jobs[id].schedule.kind = "Every"
           /\ jobs[id].jitter_seconds = 0) =>
              last_runs'[id] + jobs[id].schedule.seconds > now]_vars

\* C12 amended: a tick fires an Every job without jitter at most once; the
\* fire instant is the tick's instant for a job that never fired or is more
\* than ten intervals late, and the previous fire instant plus one interval
\* otherwise, so the intervals missed are replayed one per later tick.
C12_CatchUpOnePerTick ==
    [][\A id \in DOMAIN jobs :
          (/\ ScheduleFire(id)
           /\ jobs[id].schedule.kind = "Every"
           /\ jobs[id].jitter_seconds = 0) =>
              LET s == jobs[id].schedule.seconds
              IN  /\ next_eid' = next_eid + 1
                  /\ last_runs'[id] =
                         IF id \notin DOMAIN last_runs THEN now
                         ELSE IF now - (last_runs[id] + s) > LagIntervals * s
                         THEN now
                         ELSE last_runs[id] + s]_vars

\* C12 witness: Every(2) fired at 0 and, ticked next at 7, fired the second
\* time, for the instant 2
C12_Witness ==
    \E id \in DOMAIN running_jobs :
        /\ id \in DOMAIN jobs
        /\ jobs[id].schedule = Every(2)
        /\ jobs[id].jitter_seconds = 0
        /\ running_jobs[id] = NewContext(2, 2, 7)

\* the instants a cron expression names, read off the expression
CronInstant(expression, c) ==
    \/ expression = CronEveryFive /\ c >= 0 /\ c % 5 = 0
    \/ expression = CronYear2030 /\ c = Year2030

\* the instants the fire that wrote last_runs'[id] may have been chosen for:
\* the value written less a jitter draw
FiredInstants(id) ==
    {c \in (last_runs'[id] - jobs[id].jitter_seconds) .. last_runs'[id] :
        /\ last_runs'[id] - c \in JitterRange(jobs[id])
        /\ CronInstant(jobs[id].schedule.expression, c)}

\* C13: a Cron job is fired by a tick only for the first instant of its
\* schedule strictly after start (last_runs[id], or now - 1 when it never
\* fired) and only if that instant is <= now; an expression whose instants
\* are all later than now, or that does not parse, is never fired.
C13_CronDueOnlyIfInstantReached ==
    [][\A id \in DOMAIN jobs :
          (ScheduleFire(id) /\ jobs[id].schedule.kind = "Cron") =>
              LET start == IF id \in DOMAIN last_runs THEN last_runs[id]
                           ELSE now - 1
                  expression == jobs[id].schedule.expression
              IN  /\ expression # CronGarbage
                  /\ \E c \in FiredInstants(id) :
                         /\ start < c /\ c <= now
                         /\ \A b \in (start + 1) .. (c - 1) :
                                ~CronInstant(expression, b)]_vars

\* C13 witness: the job, fired before for the instant 5, is fired by the
\* tick of second 11 for the instant 10, the first one after 5
C13_Witness ==
    \E id \in DOMAIN running_jobs :
        /\ id \in DOMAIN jobs
        /\ jobs[id].schedule = Cron(CronEveryFive)
        /\ jobs[id].jitter_seconds = 0
        /\ running_jobs[id] = NewContext(2, 10, 11)

\* C14: once a tick has fired a Cron job for the instant c, a later tick
\* fires it only for an instant after c (and after the value written to
\* last_runs), also a tick in the same second after the execution finished.
C14_CronInstantFiresOnce ==
    [][\A id \in DOMAIN jobs :
          (/\ ScheduleFire(id)
           /\ jobs[id].schedule.kind = "Cron"
           /\ id \in DOMAIN last_runs) =>
              /\ FiredInstants(id) # {}
              /\ \A c \in FiredInstants(id) : c > last_runs[id]]_vars

\* C14 witness: the job fired for the instant 5 at the tick of second 5, its
\* execution has finished and the clock still reads 5
C14_Witness ==
    \E id \in DOMAIN jobs :
        /\ jobs[id].schedule = Cron(CronEveryFive)
        /\ id \in DOMAIN last_runs
        /\ last_runs[id] = 5 /\ now = 5
        /\ id \notin DOMAIN running_jobs
        /\ Len(history) = 1

(***************************************************************************)
(* The Calendar rule of the specification, on the January 2024 calendar.   *)
(***************************************************************************)
\* the job names a zone the zone database knows, or none
ZoneKnown(job) == job.timezone \in {NoTimezone, "America/New_York", "UTC"}

\* the wall clock of the job's zone at the UTC instant t, as
\* [day of month, ISO weekday, hour, minute, second]
RefLocal(job, t) ==
    LET east == CASE job.timezone = "America/New_York" -> 0 - 18000
                  [] job.timezone = "UTC" -> 0
                  [] OTHER -> HostOffset
        day == CHOOSE d \in 1 .. 31 :
                   (d - 1) * 86400 <= t + east /\ t + east < d * 86400
        of_day == t + east - (day - 1) * 86400
        hms == CHOOSE x \in (0 .. 23) \X (0 .. 59) \X (0 .. 59) :
                   x[1] * 3600 + x[2] * 60 + x[3] = of_day
    IN  [day |-> day,
         weekday |-> CHOOSE w \in 1 .. 7 : (day - w) % 7 = 0,
         time |-> hms]

RefCalendarDue(job, t) ==
    LET params == job.schedule.params
        local == RefLocal(job, t)
    IN  /\ local.time = params.time
        /\ params.days_of_week.some => local.weekday \in params.days_of_week.days
        /\ params.nth_weekday.some =>
               /\ local.weekday = params.nth_weekday.weekday
               /\ ((local.day - 1) \div 7) + 1 = params.nth_weekday.n

\* the fire of id recorded in last_runs was made in the current second or
\* its jitter reaches it
FiredThisSecond(id) == id \in DOMAIN last_runs /\ last_runs[id] >= now

\* the window key of the last fire is the one of the current instant
Deduplicated(job) ==
    /\ LastWindow(job).some
    /\ LastWindow(job).at = TruncateToMinute(NowLocal(job, now))

\* C15 as claimed: in a second whose local time is the (H,M,S) of an enabled
\* Calendar job and whose day passes the filter, the job is fired exactly
\* once: a tick does not fire it a second time in that second, and a tick
\* that finds it idle and not yet fired in that second fires it.
C15_ExactlyOneFirePerSecond ==
    /\ [][\A id \in DOMAIN jobs :
             (ScheduleFire(id) /\ jobs[id].schedule.kind = "Calendar") =>
                 ~FiredThisSecond(id)]_vars
    /\ [](\A id \in DOMAIN jobs :
             (/\ jobs[id].schedule.kind = "Calendar"
              /\ jobs[id].enabled
              /\ ZoneKnown(jobs[id])
              /\ RefCalendarDue(jobs[id], now)
              /\ id \notin DOMAIN running_jobs
              /\ ~FiredThisSecond(id)) =>
                 ShouldRun(jobs[id], now).should_run)

\* the job of scenario 6
ScenarioCalendarJob ==
    CalendarJob(Calendar(<< 9, 0, 0 >>, DaysOfWeek({1}), AnyWeek),
                "America/New_York", 0)

\* C16: for a Calendar job in a known zone (the host zone when none) the
\* due-predicate is true only if the reference rule holds at now, and is
\* true whenever the rule holds and the window key does not withhold the
\* job; the New York job of the scenario fires for 14:00:00 UTC and for no
\* other instant, once.
C16_CalendarDueIsReference ==
    /\ \A id \in DOMAIN jobs :
           (jobs[id].schedule.kind = "Calendar" /\ ZoneKnown(jobs[id])) =>
               /\ ShouldRun(jobs[id], now).should_run =>
                      RefCalendarDue(jobs[id], now)
               /\ (RefCalendarDue(jobs[id], now) /\ ~Deduplicated(jobs[id])) =>
                      ShouldRun(jobs[id], now).should_run
    /\ \A id \in DOMAIN jobs :
           jobs[id] = ScenarioCalendarJob =>
               /\ id \in DOMAIN last_runs => last_runs[id] = 14 * 3600
               /\ next_eid <= 2
               /\ ShouldRun(jobs[id], now).should_run =>
                      now = 14 * 3600 /\ next_eid = 1

\* C16 witness: the scenario job has fired at 14:00:00 UTC, its execution
\* has finished, and the clock reads 14:00:01
C16_Witness ==
    \E id \in DOMAIN jobs :
        /\ jobs[id] = ScenarioCalendarJob
        /\ id \in DOMAIN last_runs
        /\ id \notin DOMAIN running_jobs
        /\ Len(history) = 1
        /\ now = 14 * 3600 + 1

(***************************************************************************)
(* Removing and replacing a job                                            *)
(***************************************************************************)
\* C17: after a RemoveJob that was carried out, the job table, retry_state,
\* last_runs and last_execution_windows hold no entry for the id; the
\* removal is carried out (for a requester allowed to) exactly when the id
\* was in the job table.
C17_RemoveDropsEveryEntry ==
    \A id \in JobIds, peer_uid \in Uids :
        LET r == RemoveJobResult(Core, peer_uid, id)
            allowed == id \in DOMAIN jobs =>
                           ~PermissionDenied(jobs[id].owner,
                                             OwnerLabel(peer_uid))
        IN  /\ allowed => (r.response = Ok <=> id \in DOMAIN jobs)
            /\ r.response = Ok =>
                   /\ id \notin DOMAIN r.core.jobs
                   /\ id \notin DOMAIN r.core.db_jobs
                   /\ id \notin DOMAIN r.core.retry_state
                   /\ id \notin DOMAIN r.core.last_runs
                   /\ id \notin DOMAIN r.core.last_execution_windows

\* C18: a RemoveJob for a job with an execution in flight leaves
\* running_jobs and the execution tasks as they are, and the task of a
\* removed job that reaches finish_job still removes the context.
C18_RemoveLeavesExecution ==
    /\ [](\A id \in DOMAIN running_jobs, peer_uid \in Uids :
              LET r == RemoveJobResult(Core, peer_uid, id)
              IN  /\ r.core.running_jobs = running_jobs
                  /\ r.core.execs = execs)
    /\ [][\A e \in execs :
              (e.job.id \notin DOMAIN jobs /\ e.pc = "finish"
                   /\ e \notin execs') =>
                  e.job.id \notin DOMAIN running_jobs']_vars

\* C18 witness: the job was removed while its execution ran; the task has
\* written its result and is about to call finish_job, the context is kept
C18_Witness ==
    /\ response = Ok
    /\ "a" \notin DOMAIN jobs
    /\ "a" \in DOMAIN running_jobs
    /\ \E e \in execs : e.job.id = "a" /\ e.pc = "finish"
    /\ Len(history) + Len(retry_attempts) > 0

\* C19: an AddJob carried out for an id already in the job table puts the
\* new definition in the job table and in the Store and changes nothing
\* else: last_runs, last_execution_windows, retry_state and running_jobs
\* are as before, so the schedule of the new definition is judged against
\* the fire history of the old one.
C19_ReplaceKeepsHistory ==
    \A doc \in JobDocs, peer_uid \in Uids :
        LET r == AddJobResult(Core, peer_uid, doc)
        IN  (doc.id \in DOMAIN jobs /\ r.response = Ok) =>
                /\ r.core.jobs = Put(jobs, doc.id, StampOwner(doc, peer_uid))
                /\ DOMAIN r.core.jobs = DOMAIN jobs
                /\ load_jobs(r.core.db_jobs) = r.core.jobs
                /\ r.core.last_runs = last_runs
                /\ r.core.last_execution_windows = last_execution_windows
                /\ r.core.retry_state = retry_state
                /\ r.core.running_jobs = running_jobs
                /\ [r.core EXCEPT !.jobs = jobs, !.db_jobs = db_jobs] = Core

\* C19 witness: the job was replaced while the execution of its former
\* definition is in flight; its fire history and its pending retry are kept
C19_Witness ==
    /\ response = Ok
    /\ "a" \in DOMAIN jobs /\ "a" \in DOMAIN last_runs
    /\ "a" \in DOMAIN retry_state /\ "a" \in DOMAIN running_jobs
    /\ \E e \in execs : e.job.id = "a" /\ e.job # jobs["a"]

\* C20: replacing a job by a disabled definition leaves its execution in
\* flight as it is, and no tick puts a job into its due-set, through the
\* schedule or through the retry path, while the job table holds it
\* disabled.
C20_DisabledNotDispatched ==
    /\ [](\A id \in DOMAIN running_jobs :
              LET r == AddJobResult(Core, 0, Disabled(jobs[id]))
              IN  /\ r.response = Ok
                  /\ r.core.running_jobs = running_jobs
                  /\ r.core.execs = execs)
    /\ [][\A i \in DOMAIN due' :
              due = << >> => jobs[due'[i].job.id].enabled]_vars

(***************************************************************************)
(* Completion of an execution                                              *)
(***************************************************************************)
\* C21: a context leaves running_jobs only by the finish_job that ends the
\* task of its execution, the last step of that task, and every context
\* installed by the tick or by StartJob is eventually removed, however the
\* execution ends.
C21_EveryExecutionFinishes ==
    /\ [][\A id \in DOMAIN running_jobs :
              id \notin DOMAIN running_jobs' =>
                  \E e \in execs :
                      /\ e.job.id = id /\ e.pc = "finish"
                      /\ e.eid = running_jobs[id].execution_id
                      /\ execs' = execs \ {e}]_vars
    /\ \A id \in JobIds :
           (id \in DOMAIN running_jobs) ~> (id \notin DOMAIN running_jobs)

(***************************************************************************)
(* The order of the firings of a job                                       *)
(***************************************************************************)
\* C22: a scheduled firing of a job that has fired before writes a
\* last_runs value strictly greater than the one it replaces, whatever the
\* schedule and the jitter.
C22_LastRunsIncrease ==
    [][\A id \in DOMAIN jobs :
           (ScheduleFire(id) /\ id \in DOMAIN last_runs) =>
               last_runs'[id] > last_runs[id]]_vars

(***************************************************************************)
(* The rule of Every(s) as section 4.1 words it                            *)
(***************************************************************************)
RefEveryDue(last_fire, s, t) ==
    last_fire = << >> \/ last_fire[1] + s <= t

RefEveryFire(last_fire, s, t) ==
    IF last_fire = << >> THEN t
    ELSE IF t - (last_fire[1] + s) > 10 * s THEN t
    ELSE last_fire[1] + s

\* last_fire of a job: no instant or one
LastFire(id) == IF id \in DOMAIN last_runs THEN << last_runs[id] >> ELSE << >>

C28_WindowKeyIsSecond ==
    \A id \in DOMAIN jobs :
        (/\ jobs[id].schedule.kind = "Calendar"
         /\ ZoneKnown(jobs[id])
         /\ RefCalendarDue(jobs[id], now)
         /\ ~ShouldRun(jobs[id], now).should_run) =>
            /\ id \in DOMAIN last_execution_windows
            /\ last_execution_windows[id] = now

(***************************************************************************)
(* The retry path of the tick                                              *)
(***************************************************************************)
\* C29: a tick puts a job into its due-set through the retry path only if
\* retry_state holds a next_attempt_at for it that has come, the job is in
\* the job table and it has no context; so not while an execution started
\* by hand is in flight, and not before next_attempt_at.
C29_RetryPathGuards ==
    [][\A i \in DOMAIN due' :
           (due = << >> /\ due'[i].origin = "retry") =>
               LET id == due'[i].job.id
               IN  /\ id \in DOMAIN retry_state
                   /\ retry_state[id].next_attempt_at <= now
                   /\ id \in DOMAIN jobs
                   /\ id \notin DOMAIN running_jobs
                   /\ \A e \in execs : e.job.id # id]_vars

\* C29 witness: the retry the failure at 0 asked for at 1 is in the due-set
\* of a tick at 1
C29_Witness ==
    /\ now = 1
    /\ \E i \in DOMAIN due :
           /\ due[i].origin = "retry"
           /\ due[i].job.id \in DOMAIN retry_state
           /\ retry_state[due[i].job.id].next_attempt_at = 1

(***************************************************************************)
(* Failure of the spawn                                                    *)
(***************************************************************************)
\* the task e leaves its position in this step
Steps(e) == e \in execs /\ e \notin execs'

C23_EveryDocumentHandled ==
    /\ \A i \in 1..Len(conn.handled) : conn.handled[i] = i
    /\ Len(conn.replies) = Len(conn.handled)
    /\ Len(conn.handled) <= Len(conn.sent)
    /\ (conn.state = "open" /\ conn.wire = << >>) =>
           /\ Len(conn.handled) = Len(conn.sent)
           /\ conn.complete_buf = << >>

\* what holds of the child of a running execution e and its signals
C25_SignalsOfChild(e) ==
    LET child == children[e.eid]
        T == e.job.timeout_seconds
    IN  /\ Len(child.signals) <= 2
        /\ Len(child.signals) >= 1 =>
               /\ T.some
               /\ child.signals[1].name = "SIGTERM"
               /\ child.signals[1].at >= child.spawned_at + T.seconds
        /\ Len(child.signals) = 2 =>
               /\ child.signals[2].name = "SIGKILL"
               /\ child.signals[2].at >= child.signals[1].at + GraceSeconds
        /\ T.some => now <= child.spawned_at + T.seconds + GraceSeconds

\* C25: for a job with timeout_seconds = T the timeout waiter acts only T
\* seconds after the spawn: it sends SIGTERM if the spawned process is
\* still alive and SIGKILL 2 seconds later only if the process is still
\* alive, SIGTERM always comes before SIGKILL, and no signal is sent when
\* the process had already exited; a job that runs on is gone within
\* T + 2 seconds of its spawn (within 5 seconds for T = 2) and, with no
\* retries configured, its history row has the status "failed".
C25_TimeoutWaiter ==
    /\ [](\A e \in execs :
              (e.pc = "running" /\ e.eid \in DOMAIN children) =>
                  C25_SignalsOfChild(e))
    /\ [](\A pid \in DOMAIN children :
              children[pid].owner = "other" => children[pid].signals = << >>)
    /\ [][\A e \in execs :
              (/\ e.pc = "running"
               /\ children[e.eid].signals # << >>
               /\ e.job.retry_policy.max_attempts = 0
               /\ e \notin execs') =>
                  \E f \in execs' :
                      /\ f.eid = e.eid
                      /\ f.row = HistoryRow(e.job.id, "failed")]_vars

\* C26: after the daemon has received SIGTERM or SIGINT the accept loop has
\* exited (no connection is accepted), no tick dispatches a new job from
\* that point on (no execution id is given out and nothing is handed to
\* execute_job), the shutdown sends no signal to the children of the
\* executions in flight, and once main has returned the control socket
\* file is unlinked.
C26_Shutdown ==
    /\ [][daemon.phase # "serving" =>
              /\ conn.state = "none" => conn'.state = "none"
              /\ next_eid' = next_eid
              /\ \A e \in execs' : e \in execs \/ e.pc # "dispatched"]_vars
    /\ [][daemon' # daemon => children' = children]_vars
    /\ [](\A pid \in DOMAIN children : children[pid].signals = << >>)
    /\ [](daemon.phase = "exited" => ~daemon.socket_file)

\* C35: a StartJob request, answered Ok or refused, leaves last_runs,
\* last_execution_windows and the job table as they were, so the schedule
\* of the job is decided from the same entries as before the manual start.
C35_StartJobLeavesSchedule ==
    /\ [](\A peer_uid \in Uids, id \in JobIds :
              LET r == StartJobResult(Core, peer_uid, id, now)
              IN  /\ r.core.last_runs = last_runs
                  /\ r.core.last_execution_windows = last_execution_windows
                  /\ r.core.jobs = jobs)
    /\ [][(\E e \in execs' \ execs : e.origin = "start") =>
              /\ last_runs' = last_runs
              /\ last_execution_windows' = last_execution_windows
              /\ jobs' = jobs]_vars

\* C35 witness: a job the tick has fired before is started by hand, at a
\* later second than its last_runs entry
C35_Witness ==
    \E e \in execs :
        /\ e.origin = "start"
        /\ e.job.id \in DOMAIN last_runs
        /\ e.job.id \in DOMAIN running_jobs
        /\ running_jobs[e.job.id].execution_id = e.eid
        /\ running_jobs[e.job.id].start_time > last_runs[e.job.id]

\* C39: an AddJob of root for an id whose job is owned by "lunasched"
\* replaces the job and makes "root" its owner; and while a job is owned by
\* "root", every AddJob, RemoveJob and StartJob for its id by a requester
\* that is not root is refused with a Permission denied error and changes
\* nothing, so the job stays root's until root removes it.
C39_RootTakesOver ==
    /\ [](\A id \in DOMAIN jobs, doc \in CtlDocs :
              (jobs[id].owner = "lunasched" /\ doc.id = id) =>
                  LET r == AddJobResult(Core, 0, doc)
                  IN  /\ r.response = Ok
                      /\ r.core.jobs[id] = [doc EXCEPT !.owner = "root"])
    /\ [](\A id \in DOMAIN jobs, peer_uid \in Uids \ {0} :
              jobs[id].owner = "root" =>
                  /\ \A doc \in CtlDocs :
                         doc.id = id =>
                             AddJobResult(Core, peer_uid, doc) =
                                 [core |-> Core,
                                  response |-> Denied("overwrite", "root")]
                  /\ RemoveJobResult(Core, peer_uid, id) =
                         [core |-> Core, response |-> Denied("remove", "root")]
                  /\ StartJobResult(Core, peer_uid, id, now) =
                         [core |-> Core, response |-> Denied("start", "root")])
    /\ [][\A id \in DOMAIN jobs :
              (jobs[id].owner = "root" /\ id \in DOMAIN jobs') =>
                  jobs'[id].owner = "root"]_vars

\* C39 witness: an execution of the job as "lunasched" owned it is still in
\* flight, root has replaced the job, and a request of the other client
\* has been refused
C39_Witness ==
    \E e \in execs :
        /\ e.job.owner = "lunasched"
        /\ e.job.id \in DOMAIN jobs
        /\ jobs[e.job.id].owner = "root"
        /\ response \in {Denied("overwrite", "root"), Denied("remove", "root"),
                          Denied("start", "root")}

\* C37: once RemoveJob(id) has succeeded the id is out of the job table,
\* and while it is out no tick places it in its due-set or installs a
\* context for it, by the schedule or by a retry, also when a completion
\* that ends after the removal has written a retry_state entry for it; a
\* job added again under the id is scheduled again.
C37_RemovedNotFired ==
    /\ [][\A id \in JobIds, peer_uid \in Uids :
              (/\ RemoveJobResult(Core, peer_uid, id).response = Ok
               /\ RemoveJob(peer_uid, id)) => id \notin DOMAIN jobs']_vars
    /\ [][\A id \in JobIds :
              id \notin DOMAIN jobs =>
                  /\ \A i \in 1..Len(due') :
                         due'[i].job.id = id =>
                             \E j \in 1..Len(due) : due[j] = due'[i]
                  /\ id \in DOMAIN running_jobs' =>
                         /\ id \in DOMAIN running_jobs
                         /\ running_jobs'[id] = running_jobs[id]]_vars

\* C37 witness: the job is removed, the execution that was in flight has
\* failed after the removal and left a retry_state entry that is due, a
\* second has passed since, and nothing of the job is running or due
C37_Witness ==
    /\ "a" \notin DOMAIN jobs
    /\ "a" \in DOMAIN retry_state
    /\ retry_state["a"].next_attempt_at < now
    /\ "a" \notin DOMAIN running_jobs
    /\ due = << >> /\ execs = {}
    /\ \E i \in 1..Len(retry_attempts) : retry_attempts[i].job_id = "a"

\* the execution e as the next state holds it, if it still does
SameExecution(e) == {f \in execs' : f.eid = e.eid}

\* C38: a pending retry does not suspend the schedule of the job: a tick
\* taken while retry_state[id].next_attempt_at is in the future, id is not
\* running and the schedule of the enabled job is due, dispatches the job
\* by its schedule; the execution takes retry_state[id].attempt as it is
\* then for its attempt number, its failure writes that number plus one
\* while it is below max_attempts and removes the entry otherwise, and its
\* success removes the entry.
C38_PendingRetryKeepsSchedule ==
    /\ [](\A id \in DOMAIN jobs :
              (/\ due = << >> /\ next_eid <= PendingMaxExecs
               /\ id \in DOMAIN retry_state
               /\ retry_state[id].next_attempt_at > now
               /\ id \notin DOMAIN running_jobs
               /\ jobs[id].enabled
               /\ jobs[id].schedule.kind = "Every"
               /\ (id \in DOMAIN last_runs =>
                      last_runs[id] + jobs[id].schedule.seconds <= now)) =>
                  ENABLED (/\ Tick(PendingMaxExecs)
                           /\ \E i \in 1..Len(due') :
                                  /\ due'[i].job.id = id
                                  /\ due'[i].origin = "schedule"))
    /\ [][\A e \in execs : \A f \in SameExecution(e) :
              LET id == e.job.id
                  max_attempts == e.job.retry_policy.max_attempts
              IN  /\ (e.pc = "dispatched" /\ f.pc = "running") =>
                         f.current_attempt =
                             IF id \in DOMAIN retry_state
                             THEN retry_state[id].attempt ELSE 0
                  /\ (e.pc = "running" /\ f.outcome = "failed") =>
                         IF e.current_attempt < max_attempts
                         THEN /\ id \in DOMAIN retry_state'
                              /\ retry_state'[id].attempt = e.current_attempt + 1
                         ELSE id \notin DOMAIN retry_state'
                  /\ (e.pc = "running" /\ f.outcome = "success") =>
                         id \notin DOMAIN retry_state']_vars

\* C38 witness: the schedule has dispatched the job while its retry was
\* pending, and the execution runs as attempt number 1
C38_Witness ==
    \E e \in execs :
        /\ e.origin = "schedule"
        /\ e.pc = "running"
        /\ e.current_attempt = 1
        /\ e.job.id \in DOMAIN retry_state
        /\ retry_state[e.job.id].attempt = 1
        /\ retry_state[e.job.id].next_attempt_at > now

\* the job names a zone the zone database does not know
C40_ZoneUnknown(job) ==
    /\ job.schedule.kind = "Calendar"
    /\ job.timezone # NoTimezone
    /\ ~ZoneKnown(job)

\* C40: a Calendar job whose timezone is not a zone name is evaluated on
\* the host's local clock, and the window check still applies to it: once
\* it has fired in a window, a later tick in the same window does not fire
\* it again, its execution having finished or not.
C40_UnknownZoneDeduplicated ==
    /\ [](\A id \in DOMAIN jobs :
              (C40_ZoneUnknown(jobs[id]) /\ ShouldRun(jobs[id], now).should_run)
                  => RefCalendarDue(jobs[id], now))
    /\ [][\A id \in DOMAIN jobs :
              (/\ C40_ZoneUnknown(jobs[id])
               /\ id \in DOMAIN last_execution_windows
               /\ TruncateToMinute(last_execution_windows[id] + HostOffset) =
                      TruncateToMinute(now + HostOffset)) =>
                  ~ScheduleFire(id)]_vars

\* the statuses execute_job writes to the history table
HistoryStatuses == {"success", "failed", "Error", "SpawnError"}

\* C33: each execution that terminates persists exactly one row: a history
\* row "success" on exit zero, a retry-attempt row and no history row on a
\* failure with retries remaining, a history row "failed" on a failure with
\* the retries exhausted, a history row "Error" on a wait failure, a
\* history row "SpawnError" on a spawn failure; the history table is only
\* appended to, and its statuses are these four.
C33_OneRowPerExecution ==
    /\ [][\A e \in execs : \A f \in SameExecution(e) :
              LET id == e.job.id
                  remaining == f.current_attempt <
                                   e.job.retry_policy.max_attempts
              IN  /\ (e.pc = "dispatched" /\ f.pc \notin {"dispatched", "running"}) =>
                         f.pc = "log" /\ f.row = HistoryRow(id, "SpawnError")
                  /\ (e.pc = "running" /\ f.pc # "running") =>
                         /\ f.pc = "log"
                         /\ f.outcome \in {"success", "failed", "wait_error"}
                         /\ f.outcome = "success" =>
                                f.row = HistoryRow(id, "success")
                         /\ (f.outcome = "failed" /\ remaining) =>
                                f.row.table = "retry_attempts"
                         /\ (f.outcome = "failed" /\ ~remaining) =>
                                f.row = HistoryRow(id, "failed")
                         /\ f.outcome = "wait_error" =>
                                f.row = HistoryRow(id, "Error")
                  /\ (e.pc = "log" /\ f.pc # "log") =>
                         /\ f.pc = "finish"
                         /\ IF e.row.table = "history"
                            THEN /\ history' = Append(history, e.row)
                                 /\ retry_attempts' = retry_attempts
                            ELSE /\ retry_attempts' = Append(retry_attempts, e.row)
                                 /\ history' = history
                  /\ e.pc \in {"dispatched", "running", "finish"} =>
                         history' = history /\ retry_attempts' = retry_attempts]_vars
    /\ [][\A e \in execs : SameExecution(e) = {} => e.pc = "finish"]_vars
    /\ [][/\ Len(history') >= Len(history)
          /\ SubSeq(history', 1, Len(history)) = history]_vars
    /\ [](\A i \in 1..Len(history) : history[i].status \in HistoryStatuses)

\* C34: after a successful spawn of the process of a job, the context of the
\* job in running_jobs holds the pid of the process (Some, not None) until
\* the context is removed.
C34_PidRecorded ==
    \A e \in execs :
        (/\ e.pc = "running"
         /\ e.eid \in DOMAIN children
         /\ e.job.id \in DOMAIN running_jobs
         /\ running_jobs[e.job.id].execution_id = e.eid) =>
            running_jobs[e.job.id].pid # "None"

\* C32: when the Store write of an AddJob fails, the job is still inserted
\* into the in-memory job table and the response is Ok, the Store is as it
\* was (the in-memory table then holds a job the Store does not), and the
\* ticks that follow fire the job by its schedule.
C32_UnsavedJobAccepted ==
    /\ \A peer_uid \in Uids, doc \in UnsavedDocs :
           LET job == StampOwner(doc, peer_uid)
               r == AddJobUnsavedResult(Core, peer_uid, doc)
           IN  ~(/\ job.id \in DOMAIN jobs
                 /\ PermissionDenied(jobs[job.id].owner,
                                     OwnerLabel(peer_uid))) =>
                   /\ r.response = Ok
                   /\ job.id \in DOMAIN r.core.jobs
                   /\ r.core.jobs[job.id] = job
                   /\ r.core.db_jobs = db_jobs
                   /\ (job.id \notin DOMAIN db_jobs =>
                          job.id \in DOMAIN r.core.jobs \ DOMAIN r.core.db_jobs)
    /\ \A id \in DOMAIN jobs \ DOMAIN db_jobs :
           (/\ due = << >> /\ next_eid <= UnsavedMaxExecs
            /\ id \notin DOMAIN running_jobs
            /\ jobs[id].enabled
            /\ (id \in DOMAIN last_runs =>
                   last_runs[id] + jobs[id].schedule.seconds <= now)) =>
               ENABLED (/\ Tick(UnsavedMaxExecs)
                        /\ \E i \in 1..Len(due') :
                               /\ due'[i].job.id = id
                               /\ due'[i].origin = "schedule")

\* an execution the schedule started of a job the Store never received
C32_Witness ==
    /\ response = Ok
    /\ db_jobs = EmptyMap
    /\ \E e \in execs :
           /\ e.origin = "schedule"
           /\ e.job.id \in DOMAIN jobs
           /\ e.pc = "running"

\* C31: no child process is spawned, no execution is dispatched and no task
\* suspends while the task holds the scheduler core lock: the tick task has
\* dropped the lock when it dispatches its due-set, the StartJob handler when
\* it calls execute_job, the completion task when it waits for the child or
\* spawns a hook; a task that has ended holds no lock.
C31_NoSpawnUnderCoreLock ==
    \A t \in TaskNames :
        /\ NextOp(t) \in {"await", "spawn", "task_execute", "task_completion"}
              => ~Holds(t, "core")
        /\ NextOp(t) = "-" => tasks[t].held = << >>

\* a child process is about to be spawned while another task holds the lock
C31_Witness ==
    \E t \in TaskNames, h \in TaskNames :
        /\ NextOp(t) = "spawn"
        /\ h # t /\ Holds(h, "core")
        /\ NextOp(TickTask) = "task_execute"

\* a task waits for a lock that the other task holds
WaitsFor(t, h) ==
    /\ NextOp(t) \in {"lock_core", "lock_store"}
    /\ Holds(h, LockName(NextOp(t)))

\* C36: no deadlock is reachable between the tick task, the connection
\* handlers and the completion tasks: a task that holds both locks took the
\* core lock first, no task that holds the Store lock waits for the core
\* lock, and no tasks wait for each other (or a task for itself).
C36_NoDeadlock ==
    /\ \A t \in TaskNames :
          /\ tasks[t].held \in {<< >>, << "core" >>, << "store" >>,
                                << "core", "store" >>}
          /\ Holds(t, "store") => NextOp(t) # "lock_core"
    /\ \A t \in TaskNames, h \in TaskNames :
          ~(WaitsFor(t, h) /\ WaitsFor(h, t))
    /\ \E t \in TaskNames : ENABLED (Lock(t) \/ Unlock(t) \/ Proceed(t)
                                        \/ SpawnTask(t))

\* a handler that holds the core lock waits for the Store lock, which a
\* completion task holds for its history row
C36_Witness ==
    \E t \in TaskNames, h \in Slots :
        /\ tasks[t].held = << "core" >> /\ NextOp(t) = "lock_store"
        /\ tasks[h].held = << "store" >>

====
